---- MODULE Spec2Model ----
(***************************************************************************)
(* Verification model of the information-spread analysis backend           *)
(* (zaq2989/information-checker).                                          *)
(*                                                                         *)
(* Sub-models, each with its own specification:                            *)
(*   SpecEngine / FairSpecEngine : createAnalysis, startAnalysisAsync and  *)
(*        AnalysisEngine.runFullAnalysis over the analysis table, with     *)
(*        storage calls that may fail.                                     *)
(*   SpecStore : the per-item storage loops of detectAnomalies and         *)
(*        detectCoordination.                                              *)
(*   SpecRerun : the pipeline run repeatedly on one dataset while the      *)
(*        wall clock advances (Date.now(), new Date(), Math.random()).     *)
(*   SpecAnomaly : AnomalyDetector.prioritizeAnomalies over the anomalies  *)
(*        its detectors push.                                              *)
(*   SpecMerge : CoordinationDetector.mergePatterns over the patterns its  *)
(*        detectors push, applied once and then to its own result.         *)
(*   SpecGraph : NetworkAnalyzer.buildNetworkGraph over a dataset.         *)
(*   SpecNetwork : NetworkAnalyzer.analyzeNetwork over whole datasets.     *)
(*   SpecClassify : BotDetector.classify.                                  *)
(*   SpecCollector : collectTweetSpread and the RateLimiter.               *)
(*   SpecReadOnly : runFullAnalysis and the arrays it reads and creates.   *)
(*   SpecCoordination, SpecLink : detectCoordination over activities.      *)
(*   SpecHub : AnomalyDetector.detectNetworkAnomalies over hub timelines.  *)
(*   SpecIndex : concurrent saves of DataStorageService.                   *)
(*   SpecRate : RateLimitService as searchTwitter uses it.                 *)
(*                                                                         *)
(* Time is kept in whole seconds (Date.getTime() = 1000 * t).              *)
(***************************************************************************)
EXTENDS Integers, Sequences, FiniteSets, TLC

VARIABLES
    \* ---- analysis table rows and the async task of each analysis ----
    rec,        \* rec[id]: the row of table "analysis": status, error, summary
    pc,         \* pc[id]: where the task of analysis id is suspended
    finished,   \* finished[id]: the analyses whose result runFullAnalysis holds
    summary,    \* summary[id]: the `summary` of runFullAnalysis: made, and from which results
    err,        \* err[id]: the error caught by the catch block that runs next
    outcome,    \* outcome[id]: how runFullAnalysis ended (returned / threw e)
    hist,       \* hist[id]: history of the run (ghost): steps, faults, writes
    \* ---- storing a detector's result list (storeAnomalies, storeCoordinationPatterns) ----
    stPc,       \* "idle", "storing", "returned"
    stKind,     \* "anomalies" or "patterns"
    stItems,    \* the computed list (prioritizedAnomalies / mergedPatterns)
    stIdx,      \* index of the item the for loop handles next
    stAttempts, \* items for which the INSERT was issued, in order (ghost)
    stFailed,   \* items one of whose writes was rejected (ghost)
    stRows,     \* items whose row is in the relational store
    stGraph,    \* patterns whose Coordination node is in the graph store
    stReturned, \* the list the detector returned
    \* ---- repeated runs of the pipeline on one dataset ----
    now,        \* the wall clock, Date.now() / 1000
    ticks,      \* how often the clock has advanced (bounds the model)
    dataset,    \* the dataset under analysis (fixed at the start)
    runs,       \* the results of the runs so far, each with the time it ran at
    \* ---- AnomalyDetector: the anomalies of the detectors and their ranking ----
    anPc,       \* "detecting" while the detectors push, then "returned"
    timeline,   \* the timeline handed to detectAnomalies
    anWrites,   \* INSERT INTO anomalies queries issued by storeAnomalies
    anomalies,  \* `anomalies` of detectAnomalies: what the four detectors pushed
    prioritized, \* prioritizedAnomalies of detectAnomalies
    \* ---- CoordinationDetector: the patterns of the detectors and their merge ----
    mgPc,       \* "detecting", "merged" (mergePatterns ran), "remerged" (ran again)
    activities, \* the activities handed to detectCoordination
    patterns,   \* `patterns` of detectCoordination: what the three detectors pushed
    mergedPatterns, \* mergePatterns(patterns)
    remerged,   \* mergePatterns(mergedPatterns)
    \* ---- NetworkAnalyzer: the graph built from a dataset ----
    grPc,       \* "collecting" while the dataset grows, then "built"
    spreadData, \* originalTweet.authorId and createdAt, retweets, quotes, replies
    nodes,      \* Array.from(nodeMap.values()), in insertion order
    edges,      \* the edges in the order they were pushed
    clusters,   \* detectClusters(nodes, edges)
    influencers, \* identifyInfluencers(nodes, edges, spreadData)
    propagationPaths, \* tracePropagationPaths(nodes, edges, spreadData)
    \* ---- BotDetector.classify over pairs of probabilities ----
    clPc,
    probabilities,
    classifications,
    \* ---- TwitterCollectorImpl.collectTweetSpread and the 'twitter-api' limit of RateLimiter ----
    tcPc,       \* where collectTweetSpread is suspended
    limit,      \* limits.get('twitter-api'): remaining, resetAt
    tcNow,      \* Date.now(), in windows of the limiter's clock
    apiRequests, \* requests this call issued through this.client (ghost)
    checkResult, \* what checkLimit('twitter-api') resolved to in this call
    quotaBefore, \* limit.remaining when this call began (ghost)
    pagesLeft,  \* pages the search paginator of collectHistoricalData still yields
    calls,      \* calls of collectTweetSpread so far (bounds the model)
    \* ---- runFullAnalysis and the arrays it reads and creates ----
    roPc,       \* the step of runFullAnalysis that runs next, "done" or "failed"
    heap,       \* the arrays by name: those of spreadData and those the run creates
    snapshot,   \* the arrays of spreadData when runFullAnalysis was called (ghost)
    \* ---- DataStorageService: concurrent saves and the index files ----
    ixPc,       \* ixPc[s]: where save s is suspended
    ixKind,     \* ixKind[s]: the index the save updates, 'searches' or 'analyses'
    ixLocal,    \* ixLocal[s]: `index` of updateIndex, as read from the file
    indexFiles, \* indexFiles[k]: index.json of kind k: exists, entries
    ixReadFailed, \* saves whose read of the index was rejected (ghost)
    \* ---- RateLimitService: the record of endpoint 'twitter-search' ----
    rlRecord,   \* records.get('twitter-search'): exists, count, firstRequest
    rlNow,      \* Date.now()
    rlRecorded  \* rlRecorded[t]: requests recorded at time t (ghost)

engineVars == <<rec, pc, finished, summary, err, outcome, hist>>

storeVars == <<stPc, stKind, stItems, stIdx, stAttempts, stFailed, stRows,
               stGraph, stReturned>>

rerunVars == <<now, ticks, dataset, runs>>

anomalyVars == <<anPc, timeline, anWrites, anomalies, prioritized>>

mergeVars == <<mgPc, activities, patterns, mergedPatterns, remerged>>

analysisVars == <<clusters, influencers, propagationPaths>>

graphVars == <<grPc, spreadData, nodes, edges, analysisVars>>

classifyVars == <<clPc, probabilities, classifications>>

collectorVars == <<tcPc, limit, tcNow, apiRequests, checkResult, quotaBefore, pagesLeft, calls>>

readOnlyVars == <<roPc, heap, snapshot>>

indexVars == <<ixPc, ixKind, ixLocal, indexFiles, ixReadFailed>>

rateVars == <<rlRecord, rlNow, rlRecorded>>

vars == <<engineVars, storeVars, rerunVars, anomalyVars, mergeVars, graphVars, classifyVars, collectorVars, readOnlyVars, indexVars, rateVars>>

\* what the actions of one sub-model leave alone
nonEngineVars == <<storeVars, rerunVars, anomalyVars, mergeVars, graphVars, classifyVars, collectorVars, readOnlyVars, indexVars, rateVars>>
nonStoreVars == <<engineVars, rerunVars, anomalyVars, mergeVars, graphVars, classifyVars, collectorVars, readOnlyVars, indexVars, rateVars>>
nonRerunVars == <<engineVars, storeVars, anomalyVars, mergeVars, graphVars, classifyVars, collectorVars, readOnlyVars, indexVars, rateVars>>
nonAnomalyVars == <<engineVars, storeVars, rerunVars, mergeVars, graphVars, classifyVars, collectorVars, readOnlyVars, indexVars, rateVars>>
nonMergeVars == <<engineVars, storeVars, rerunVars, anomalyVars, graphVars, classifyVars, collectorVars, readOnlyVars, indexVars, rateVars>>
nonGraphVars == <<engineVars, storeVars, rerunVars, anomalyVars, mergeVars, classifyVars, collectorVars, readOnlyVars, indexVars, rateVars>>
nonClassifyVars == <<engineVars, storeVars, rerunVars, anomalyVars, mergeVars, graphVars, collectorVars, readOnlyVars, indexVars, rateVars>>
nonCollectorVars == <<engineVars, storeVars, rerunVars, anomalyVars, mergeVars, graphVars, classifyVars, readOnlyVars, indexVars, rateVars>>
nonReadOnlyVars == <<engineVars, storeVars, rerunVars, anomalyVars, mergeVars, graphVars, classifyVars, collectorVars, indexVars, rateVars>>
nonIndexVars == <<engineVars, storeVars, rerunVars, anomalyVars, mergeVars, graphVars, classifyVars, collectorVars, readOnlyVars, rateVars>>
nonRateVars == <<engineVars, storeVars, rerunVars, anomalyVars, mergeVars, graphVars, classifyVars, collectorVars, readOnlyVars, indexVars>>

-----------------------------------------------------------------------------
(* The state of each sub-model while another sub-model runs *)

IdleStore ==
    /\ stPc = "idle"
    /\ stKind = "none"
    /\ stItems = <<>>
    /\ stIdx = 1
    /\ stAttempts = <<>>
    /\ stFailed = {}
    /\ stRows = {}
    /\ stGraph = {}
    /\ stReturned = <<>>

IdleRerun ==
    /\ now = 0
    /\ ticks = 0
    /\ dataset = <<>>
    /\ runs = <<>>

IdleAnomaly ==
    /\ anPc = "detecting"
    /\ timeline = <<>>
    /\ anWrites = 0
    /\ anomalies = <<>>
    /\ prioritized = <<>>

IdleMerge ==
    /\ mgPc = "detecting"
    /\ activities = <<>>
    /\ patterns = <<>>
    /\ mergedPatterns = <<>>
    /\ remerged = <<>>

IdleGraph ==
    /\ grPc = "collecting"
    /\ spreadData = [authorId |-> "u0", createdAt |-> 0, retweets |-> <<>>,
                     quotes |-> <<>>, replies |-> <<>>]
    /\ nodes = <<>>
    /\ edges = <<>>
    /\ clusters = <<>>
    /\ influencers = <<>>
    /\ propagationPaths = <<>>

IdleClassify ==
    /\ clPc = "input"
    /\ probabilities = <<0, 0>>
    /\ classifications = <<>>

IdleCollector ==
    /\ tcPc = "idle"
    /\ limit = [remaining |-> 0, resetAt |-> 0]
    /\ tcNow = 0
    /\ apiRequests = 0
    /\ checkResult = "none"
    /\ quotaBefore = 0
    /\ pagesLeft = 0
    /\ calls = 0

IdleReadOnly ==
    /\ roPc = "idle"
    /\ heap = <<>>
    /\ snapshot = <<>>

IdleIndex ==
    /\ ixPc = <<>>
    /\ ixKind = <<>>
    /\ ixLocal = <<>>
    /\ indexFiles = <<>>
    /\ ixReadFailed = {}

IdleRate ==
    /\ rlRecord = <<>>
    /\ rlNow = 0
    /\ rlRecorded = <<>>

-----------------------------------------------------------------------------
(* Analysis engine: createAnalysis -> startAnalysisAsync -> runFullAnalysis *)

AnalysisIds == {"a1", "a2"}

Analyzers == {"network", "bots", "coordination", "anomalies"}

\* messages of errors thrown by an analyzer's computation (an Error may carry
\* an empty message) and of a rejected storage call.  Error(src, msg): src is
\* the call that threw (one of the Analyzers, or "engine" for the engine's own
\* status and summary writes)
AnalyzerMessages == {"", "bad input"}
StorageMessage == "storage down"

NoError == [src |-> "none", msg |-> ""]
Error(src, msg) == [src |-> src, msg |-> msg]

NoRow == [status |-> "none", error |-> "null", summary |-> "null"]

NoHist == [steps |-> <<>>, thrown |-> NoError, faults |-> {},
           catchWrite |-> "none", outerWrite |-> "none"]

\* INSERT INTO analysis (id, type, parameters, status) VALUES (.., 'pending')
InsertAnalysis == [status |-> "pending", error |-> "null", summary |-> "null"]

\* a mutant: the error column is never written
UpdateAnalysisStatusNoError(row, status, error) ==
    [row EXCEPT !.status = status]

\* AnalysisEngine.updateAnalysisStatus: the error column is written only when
\* the error argument is truthy (a non-empty message)
UpdateAnalysisStatus(row, status, error) ==
    IF error # ""
    THEN [row EXCEPT !.status = status, !.error = error]
    ELSE [row EXCEPT !.status = status]

\* AnalysisEngine.storeAnalysisResults: result_summary = JSON of the summary
StoreAnalysisResultsRow(row, s) == [row EXCEPT !.summary = "full"]

\* NetworkAnalyzer.storeAnalysisResults: jsonb_set(COALESCE(result_summary,
\* '{}'), '{network_metrics}', metrics) on the same row
NetworkMetricsRow(row) ==
    [row EXCEPT !.summary = IF @ = "null" THEN "network_metrics" ELSE @]

\* a mutant: the catch of startAnalysisAsync only logs the error
OuterFailedRowLogOnly(row, msg) == row

\* startAnalysisAsync's catch: UPDATE analysis SET status = 'failed', error = $1
OuterFailedRow(row, msg) == [row EXCEPT !.status = "failed", !.error = msg]

\* a mutant: the graph write is wrapped in a catch like the other writes
StoreNetworkInGraphSwallows(graphFails) == FALSE

\* NetworkAnalyzer.storeNetworkInGraph: try { session.run ... } finally
\* { session.close() } without a catch: a rejected write propagates
StoreNetworkInGraphThrows(graphFails) == graphFails

\* NetworkAnalyzer.storeAnalysisResults: try/catch around all its writes
NetworkStoreResultsThrows(pgFails) == FALSE

\* BotDetector.storeBotDetectionResult: try/catch around all its writes
StoreBotDetectionResultThrows(pgFails) == FALSE

\* CoordinationDetector.storeCoordinationPatterns: try/catch per pattern
StoreCoordinationPatternsThrows(pgFails) == FALSE

\* AnomalyDetector.storeAnomalies: try/catch per anomaly
StoreAnomaliesThrows(pgFails) == FALSE

\* a mutant: the summary is built from the results without the last await
GenerateSummaryEarly(id) == pc[id] \in {"anomalies", "summary"}

\* runFullAnalysis reaches generateSummary only after the four awaits
GenerateSummaryReady(id) == pc[id] = "summary"

NoSummary == [made |-> FALSE, from |-> {}]

\* AnalysisEngine.generateSummary: a function of the four results (modelled
\* as the set of analyses whose results it read)
GenerateSummaryOf(results) == [made |-> TRUE, from |-> results]

Step(id, name) == [hist EXCEPT ![id].steps = Append(@, name)]

\* an error thrown inside the try block of runFullAnalysis
Throw(id, e, fault) ==
    /\ err' = [err EXCEPT ![id] = e]
    /\ pc' = [pc EXCEPT ![id] = "catch"]
    /\ hist' = [hist EXCEPT ![id].thrown = e, ![id].faults = @ \cup {fault}]

EngineStart ==
    /\ rec = [id \in AnalysisIds |-> NoRow]
    /\ pc = [id \in AnalysisIds |-> "idle"]
    /\ finished = [id \in AnalysisIds |-> {}]
    /\ summary = [id \in AnalysisIds |-> NoSummary]
    /\ err = [id \in AnalysisIds |-> NoError]
    /\ outcome = [id \in AnalysisIds |-> [kind |-> "none", err |-> NoError]]
    /\ hist = [id \in AnalysisIds |-> NoHist]

\* POST /analysis: insert the row, start the task without awaiting it
CreateAnalysis(id) ==
    /\ UNCHANGED nonEngineVars
    /\ pc[id] = "idle"
    /\ \E ok \in BOOLEAN :
         IF ok
         THEN /\ rec' = [rec EXCEPT ![id] = InsertAnalysis]
              /\ pc' = [pc EXCEPT ![id] = "setRunning"]
         ELSE /\ rec' = rec
              /\ pc' = [pc EXCEPT ![id] = "rejected"]
    /\ UNCHANGED <<finished, summary, err, outcome, hist>>

\* a mutant: UPDATE analysis SET status = 'running' without the WHERE clause
SetRunningEveryRow(id) ==
    /\ UNCHANGED nonEngineVars
    /\ pc[id] = "setRunning"
    /\ rec' = [r \in AnalysisIds |-> UpdateAnalysisStatus(rec[r], "running", "")]
    /\ pc' = [pc EXCEPT ![id] = "network"]
    /\ hist' = Step(id, "running")
    /\ UNCHANGED <<finished, summary, err, outcome>>

\* await this.updateAnalysisStatus(analysisId, 'running')
SetRunning(id) ==
    /\ UNCHANGED nonEngineVars
    /\ pc[id] = "setRunning"
    /\ \E ok \in BOOLEAN :
         IF ok
         THEN /\ rec' = [rec EXCEPT ![id] = UpdateAnalysisStatus(@, "running", "")]
              /\ pc' = [pc EXCEPT ![id] = "network"]
              /\ hist' = Step(id, "running")
              /\ err' = err
         ELSE /\ rec' = rec
              /\ Throw(id, Error("engine", StorageMessage), "engineWrite")
    /\ UNCHANGED <<finished, summary, outcome>>

\* await this.networkAnalyzer.analyzeNetwork(spreadData, analysisId)
AnalyzeNetwork(id) ==
    /\ UNCHANGED nonEngineVars
    /\ pc[id] = "network"
    /\ \E computeOk \in BOOLEAN, m \in AnalyzerMessages,
          graphFails \in BOOLEAN, pgFails \in BOOLEAN :
         IF ~computeOk
         THEN /\ Throw(id, Error("network", m), "compute")
              /\ UNCHANGED <<rec, finished>>
         ELSE IF StoreNetworkInGraphThrows(graphFails)
         THEN /\ Throw(id, Error("network", StorageMessage), "graphWrite")
              /\ UNCHANGED <<rec, finished>>
         ELSE IF NetworkStoreResultsThrows(pgFails)
         THEN /\ Throw(id, Error("network", StorageMessage), "analyzerWrite")
              /\ UNCHANGED <<rec, finished>>
         ELSE /\ rec' = [rec EXCEPT ![id] = IF pgFails THEN @ ELSE NetworkMetricsRow(@)]
              /\ finished' = [finished EXCEPT ![id] = @ \cup {"network"}]
              /\ pc' = [pc EXCEPT ![id] = "bots"]
              /\ hist' = [hist EXCEPT ![id].steps = Append(@, "network"),
                                      ![id].faults = @ \cup
                                         (IF graphFails THEN {"graphWrite"} ELSE {}) \cup
                                         (IF pgFails THEN {"analyzerWrite"} ELSE {})]
              /\ err' = err
    /\ UNCHANGED <<summary, outcome>>

\* the three analyzers whose storage writes sit in a try/catch
AnalyzerCall(id, at, name, next, storeThrows) ==
    /\ UNCHANGED nonEngineVars
    /\ pc[id] = at
    /\ \E computeOk \in BOOLEAN, m \in AnalyzerMessages, pgFails \in BOOLEAN :
         IF ~computeOk
         THEN /\ Throw(id, Error(name, m), "compute")
              /\ UNCHANGED finished
         ELSE IF storeThrows
         THEN /\ Throw(id, Error(name, StorageMessage), "analyzerWrite")
              /\ UNCHANGED finished
         ELSE /\ finished' = [finished EXCEPT ![id] = @ \cup {name}]
              /\ pc' = [pc EXCEPT ![id] = next]
              /\ hist' = [hist EXCEPT ![id].steps = Append(@, name),
                                      ![id].faults = @ \cup
                                         (IF pgFails THEN {"analyzerWrite"} ELSE {})]
              /\ err' = err
    /\ UNCHANGED <<rec, summary, outcome>>

\* await this.botDetector.detectBots(accounts)
DetectBots(id) ==
    AnalyzerCall(id, "bots", "bots", "coordination",
                 \E f \in BOOLEAN : StoreBotDetectionResultThrows(f))

\* await this.coordinationDetector.detectCoordination(activities, analysisId)
DetectCoordination(id) ==
    AnalyzerCall(id, "coordination", "coordination", "anomalies",
                 \E f \in BOOLEAN : StoreCoordinationPatternsThrows(f))

\* await this.anomalyDetector.detectAnomalies(timeline, analysisId)
DetectAnomalies(id) ==
    AnalyzerCall(id, "anomalies", "anomalies", "summary",
                 \E f \in BOOLEAN : StoreAnomaliesThrows(f))

\* const summary = this.generateSummary(network, bots, coordination, anomalies)
GenerateSummary(id) ==
    /\ UNCHANGED nonEngineVars
    /\ GenerateSummaryReady(id)
    /\ summary' = [summary EXCEPT ![id] = GenerateSummaryOf(finished[id])]
    /\ pc' = [pc EXCEPT ![id] = "storeResults"]
    /\ hist' = Step(id, "summary")
    /\ UNCHANGED <<rec, finished, err, outcome>>

\* await this.storeAnalysisResults(analysisId, summary)
StoreAnalysisResults(id) ==
    /\ UNCHANGED nonEngineVars
    /\ pc[id] = "storeResults"
    /\ \E ok \in BOOLEAN :
         IF ok
         THEN /\ rec' = [rec EXCEPT ![id] = StoreAnalysisResultsRow(@, summary[id])]
              /\ pc' = [pc EXCEPT ![id] = "setCompleted"]
              /\ hist' = Step(id, "stored")
              /\ err' = err
         ELSE /\ rec' = rec
              /\ Throw(id, Error("engine", StorageMessage), "engineWrite")
    /\ UNCHANGED <<finished, summary, outcome>>

\* a mutant: the 'completed' update is applied and a later statement of the try
\* block throws, so that the catch block runs after it
SetCompletedThenThrows(id) ==
    /\ UNCHANGED nonEngineVars
    /\ pc[id] = "setCompleted"
    /\ rec' = [rec EXCEPT ![id] = UpdateAnalysisStatus(@, "completed", "")]
    /\ Throw(id, Error("engine", "bad input"), "compute")
    /\ UNCHANGED <<finished, summary, outcome>>

\* await this.updateAnalysisStatus(analysisId, 'completed'); return {...}
SetCompleted(id) ==
    /\ UNCHANGED nonEngineVars
    /\ pc[id] = "setCompleted"
    /\ \E ok \in BOOLEAN :
         IF ok
         THEN /\ rec' = [rec EXCEPT ![id] = UpdateAnalysisStatus(@, "completed", "")]
              /\ pc' = [pc EXCEPT ![id] = "done"]
              /\ hist' = Step(id, "completed")
              /\ outcome' = [outcome EXCEPT ![id] = [kind |-> "returned", err |-> NoError]]
              /\ err' = err
         ELSE /\ rec' = rec
              /\ Throw(id, Error("engine", StorageMessage), "engineWrite")
              /\ outcome' = outcome
    /\ UNCHANGED <<finished, summary>>

\* catch (error) { await this.updateAnalysisStatus(analysisId, 'failed',
\* error.message); throw error; }  A rejected update throws its own error
\* out of the catch block instead.
CatchFailed(id) ==
    /\ UNCHANGED nonEngineVars
    /\ pc[id] = "catch"
    /\ \E ok \in BOOLEAN :
         IF ok
         THEN /\ rec' = [rec EXCEPT ![id] = UpdateAnalysisStatus(@, "failed", err[id].msg)]
              /\ outcome' = [outcome EXCEPT ![id] = [kind |-> "threw", err |-> err[id]]]
              /\ err' = err
              /\ hist' = [hist EXCEPT ![id].catchWrite = "ok",
                                      ![id].steps = Append(@, "failed")]
         ELSE /\ rec' = rec
              /\ outcome' = [outcome EXCEPT ![id] =
                                [kind |-> "threw", err |-> Error("engine", StorageMessage)]]
              /\ err' = [err EXCEPT ![id] = Error("engine", StorageMessage)]
              /\ hist' = [hist EXCEPT ![id].catchWrite = "failed"]
    /\ pc' = [pc EXCEPT ![id] = "outerCatch"]
    /\ UNCHANGED <<finished, summary>>

\* startAnalysisAsync: catch (error) { await pgPool.query(UPDATE analysis SET
\* status = 'failed', error = message ...) }; a rejection is unhandled
StartAnalysisCatch(id) ==
    /\ UNCHANGED nonEngineVars
    /\ pc[id] = "outerCatch"
    /\ \E ok \in BOOLEAN :
         IF ok
         THEN /\ rec' = [rec EXCEPT ![id] = OuterFailedRow(@, err[id].msg)]
              /\ hist' = [hist EXCEPT ![id].outerWrite = "ok"]
         ELSE /\ rec' = rec
              /\ hist' = [hist EXCEPT ![id].outerWrite = "failed"]
    /\ pc' = [pc EXCEPT ![id] = "done"]
    /\ UNCHANGED <<finished, summary, err, outcome>>

TaskStep(id) ==
    \/ SetRunning(id)
    \/ AnalyzeNetwork(id)
    \/ DetectBots(id)
    \/ DetectCoordination(id)
    \/ DetectAnomalies(id)
    \/ GenerateSummary(id)
    \/ StoreAnalysisResults(id)
    \/ SetCompleted(id)
    \/ CatchFailed(id)
    \/ StartAnalysisCatch(id)

NextEngine ==
    \E id \in AnalysisIds : CreateAnalysis(id) \/ TaskStep(id)

InitEngine ==
    EngineStart /\ IdleStore /\ IdleRerun /\ IdleAnomaly /\ IdleMerge /\ IdleGraph
    /\ IdleClassify
    /\ IdleCollector
    /\ IdleReadOnly
    /\ IdleIndex
    /\ IdleRate

SpecEngine == InitEngine /\ [][NextEngine]_vars

\* every await of the task eventually settles (returns or throws)
FairSpecEngine ==
    /\ InitEngine
    /\ [][NextEngine]_vars
    /\ \A id \in AnalysisIds : WF_vars(TaskStep(id))

\* the row of analysis id as the steps and faults of its own run determine it
\* (result_summary between the network step and storeAnalysisResults depends
\* on whether the network analyzer's own UPDATE was rejected)
RecordAlone(id) ==
    LET h == hist[id]
        Did(step) == \E i \in 1..Len(h.steps) : h.steps[i] = step
    IN  [status |->
             IF pc[id] \in {"idle", "rejected"} THEN {"none"}
             ELSE IF h.outerWrite = "ok" \/ Did("failed") THEN {"failed"}
             ELSE IF Did("completed") THEN {"completed"}
             ELSE IF Did("running") THEN {"running"}
             ELSE {"pending"},
         error |->
             IF h.outerWrite = "ok"
             THEN {IF h.catchWrite = "failed" THEN StorageMessage ELSE h.thrown.msg}
             ELSE IF h.catchWrite = "ok" /\ h.thrown.msg # "" THEN {h.thrown.msg}
             ELSE {"null"},
         summary |->
             IF Did("stored") THEN {"full"}
             ELSE IF ~Did("network") THEN {"null"}
             ELSE IF "analyzerWrite" \in h.faults THEN {"null", "network_metrics"}
             ELSE {"network_metrics"}]

\* the result runFullAnalysis returns, as the steps of its own run determine it
ResultAlone(id) ==
    LET h == hist[id]
        Did(step) == \E i \in 1..Len(h.steps) : h.steps[i] = step
    IN  [kind |-> IF Did("completed") THEN "returned"
                  ELSE IF h.catchWrite # "none" THEN "threw" ELSE "none",
         results |-> {a \in Analyzers : Did(a)},
         summary |-> IF Did("summary") THEN GenerateSummaryOf(Analyzers) ELSE NoSummary]

\* the row and the result of every run are those of its own steps
OwnRecordAndResult ==
    \A id \in AnalysisIds :
        /\ rec[id].status \in RecordAlone(id).status
        /\ rec[id].error \in RecordAlone(id).error
        /\ rec[id].summary \in RecordAlone(id).summary
        /\ outcome[id].kind = ResultAlone(id).kind
        /\ finished[id] = ResultAlone(id).results
        /\ summary[id] = ResultAlone(id).summary

\* a step leaves the row and the result of every run it is not a step of alone
WritesOwnRecordOnly ==
    \A id \in AnalysisIds :
        pc'[id] = pc[id] =>
            /\ rec'[id] = rec[id]
            /\ summary'[id] = summary[id]
            /\ finished'[id] = finished[id]
            /\ outcome'[id] = outcome[id]

\* C26: two runFullAnalysis runs with distinct analysis ids, interleaved at
\* their storage calls, do not affect each other: the status, error and summary
\* of each run's row and the result it returns are those its own steps
\* produce, and no step of one run writes the row of the other
C26_RunsIndependent ==
    []OwnRecordAndResult /\ [][WritesOwnRecordOnly]_vars

\* both runs are in flight: a2 has failed and written its row while a1, past
\* storeAnalysisResults, waits for its last status update
C26_Witness ==
    /\ pc["a1"] = "setCompleted"
    /\ rec["a1"].status = "running"
    /\ rec["a1"].summary = "full"
    /\ pc["a2"] = "outerCatch"
    /\ rec["a2"].status = "failed"
    /\ rec["a2"].summary = "network_metrics"

-----------------------------------------------------------------------------
(* detectAnomalies / detectCoordination: storing the computed list *)

MaxItems == 3

\* a mutant: one try/catch around the whole for loop, the first rejected write
\* ends the loop
AnomalyLoopAbort(i, n) == n + 1

\* AnomalyDetector.storeAnomalies: the try/catch is inside the for loop, so
\* after a rejected INSERT the loop goes on with the next anomaly
AnomalyLoopAfterFailure(i, n) == i + 1

\* CoordinationDetector.storeCoordinationPatterns: the try/catch is inside the
\* for loop (around the INSERT and storeCoordinationInGraph)
PatternLoopAfterFailure(i, n) == i + 1

\* the detector has computed its list (prioritizeAnomalies / mergePatterns)
\* and enters the store loop
ComputeList ==
    /\ UNCHANGED nonStoreVars
    /\ stPc = "idle"
    /\ \E kind \in {"anomalies", "patterns"}, n \in 0..MaxItems :
         /\ stKind' = kind
         /\ stItems' = [i \in 1..n |-> i]
    /\ stPc' = "storing"
    /\ UNCHANGED <<stIdx, stAttempts, stFailed, stRows, stGraph, stReturned>>

\* one iteration of the loop of storeAnomalies
StoreAnomaly ==
    /\ UNCHANGED nonStoreVars
    /\ stPc = "storing" /\ stKind = "anomalies" /\ stIdx <= Len(stItems)
    /\ stAttempts' = Append(stAttempts, stItems[stIdx])
    /\ \E ok \in BOOLEAN :
         IF ok
         THEN /\ stRows' = stRows \cup {stItems[stIdx]}
              /\ stIdx' = stIdx + 1
              /\ stFailed' = stFailed
         ELSE /\ stRows' = stRows
              /\ stIdx' = AnomalyLoopAfterFailure(stIdx, Len(stItems))
              /\ stFailed' = stFailed \cup {stItems[stIdx]}
    /\ UNCHANGED <<stPc, stKind, stItems, stGraph, stReturned>>

\* one iteration of the loop of storeCoordinationPatterns: the INSERT, then
\* storeCoordinationInGraph (skipped when the INSERT was rejected)
StoreCoordinationPattern ==
    /\ UNCHANGED nonStoreVars
    /\ stPc = "storing" /\ stKind = "patterns" /\ stIdx <= Len(stItems)
    /\ stAttempts' = Append(stAttempts, stItems[stIdx])
    /\ \E pgOk \in BOOLEAN, graphOk \in BOOLEAN :
         IF pgOk /\ graphOk
         THEN /\ stRows' = stRows \cup {stItems[stIdx]}
              /\ stGraph' = stGraph \cup {stItems[stIdx]}
              /\ stIdx' = stIdx + 1
              /\ stFailed' = stFailed
         ELSE /\ stRows' = IF pgOk THEN stRows \cup {stItems[stIdx]} ELSE stRows
              /\ stGraph' = stGraph
              /\ stIdx' = PatternLoopAfterFailure(stIdx, Len(stItems))
              /\ stFailed' = stFailed \cup {stItems[stIdx]}
    /\ UNCHANGED <<stPc, stKind, stItems, stReturned>>

\* return prioritizedAnomalies / return mergedPatterns
ReturnList ==
    /\ UNCHANGED nonStoreVars
    /\ stPc = "storing" /\ stIdx > Len(stItems)
    /\ stReturned' = stItems
    /\ stPc' = "returned"
    /\ UNCHANGED <<stKind, stItems, stIdx, stAttempts, stFailed, stRows, stGraph>>

InitStore ==
    IdleStore /\ EngineStart /\ IdleRerun /\ IdleAnomaly /\ IdleMerge /\ IdleGraph
    /\ IdleClassify
    /\ IdleCollector
    /\ IdleReadOnly
    /\ IdleIndex
    /\ IdleRate

NextStore ==
    \/ ComputeList
    \/ StoreAnomaly
    \/ StoreCoordinationPattern
    \/ ReturnList

SpecStore == InitStore /\ [][NextStore]_vars

\* C4: when the detector returns, a write was attempted for every item of the
\* computed list, in order, whichever writes were rejected, and the returned
\* list is the complete computed list
C4_BatchNotAborted ==
    stPc = "returned" =>
        /\ stAttempts = stItems
        /\ stReturned = stItems
        /\ stRows \cup stFailed = {stItems[i] : i \in 1..Len(stItems)}

\* the write of the first item was rejected and a later item is stored
C4_Witness ==
    /\ stPc = "returned"
    /\ Len(stItems) >= 2
    /\ 1 \in stFailed /\ 1 \notin stRows
    /\ 2 \in stRows

-----------------------------------------------------------------------------
(* BotDetector scoring.  Signal values and features are in thousandths,     *)
(* the probability in millionths; times are in seconds.                     *)

Min(a, b) == IF a < b THEN a ELSE b
Max(a, b) == IF a > b THEN a ELSE b

\* a score that may be NaN: a record, so that NaN is a value of its own
NaN == [nan |-> TRUE, v |-> 0]
Num(x) == [nan |-> FALSE, v |-> x]

DaySeconds == 86400

\* (Date.now() - account.createdAt.getTime()), in seconds
AgeSeconds(account, t) == t - account.createdAt

\* BotDetector.accountAgeAnalysis: ageInDays compared with 30, 90, 180, 3*365
accountAgeAnalysis(account, t) ==
    LET age == AgeSeconds(account, t) IN
    IF age < 30 * DaySeconds /\ account.followersCount > 1000 THEN 900
    ELSE IF age < 90 * DaySeconds /\ account.followersCount > 5000 THEN 700
    ELSE IF age < 180 * DaySeconds /\ account.followersCount > 10000 THEN 500
    ELSE IF age > 365 * 3 * DaySeconds /\ account.followersCount < 50 THEN 600
    ELSE 100

\* BotDetector.calculateMetrics: accountAgeInDays = max(1, age in days), here
\* in seconds
accountAgeClamped(account, t) == Max(DaySeconds, AgeSeconds(account, t))

\* BotDetector.tweetFrequencyAnalysis on averageTweetsPerDay = tweetCount /
\* accountAgeInDays (compared without dividing)
tweetFrequencyAnalysis(account, t) ==
    LET tweets == account.tweetCount * DaySeconds
        age == accountAgeClamped(account, t) IN
    IF tweets > 100 * age THEN 1000
    ELSE IF tweets > 50 * age THEN 800
    ELSE IF tweets > 30 * age THEN 600
    ELSE IF tweets > 10 * age /\ tweets < 15 * age THEN 400
    ELSE 100

\* BotDetector.followRatioAnalysis
followRatioAnalysis(account) ==
    LET following == account.followingCount
        followers == Max(1, account.followersCount) IN
    IF following > 50 * followers THEN 1000
    ELSE IF following > 20 * followers THEN 800
    ELSE IF following > 10 * followers THEN 600
    ELSE IF following > 5 * followers THEN 400
    ELSE IF /\ following - account.followersCount < 10
            /\ account.followersCount - following < 10
            /\ following > 100 THEN 700
    ELSE 100

\* BotDetector.engagementAnalysis: a placeholder
engagementAnalysis == 300

\* BotDetector.extractSignals: the seven signal values, in the order of the
\* signals array (profile, default image and user name scores are attributes
\* of the account here)
extractSignals(account, t) ==
    << accountAgeAnalysis(account, t),
       tweetFrequencyAnalysis(account, t),
       followRatioAnalysis(account),
       account.profileScore,
       account.defaultImageScore,
       account.usernameScore,
       engagementAnalysis >>

\* BotDetector.prepareFeatures: the six account features that precede the
\* signal values
prepareFeatures(account, t) ==
    << accountAgeClamped(account, t) \div ((365 * DaySeconds) \div 1000),
       Min(1000, (account.tweetCount * 10 * DaySeconds)
                    \div accountAgeClamped(account, t)),
       Min(1000, account.followersCount \div 10),
       Min(1000, account.followingCount \div 10),
       Min(1000, (account.followersCount * 100)
                    \div Max(1, account.followingCount)),
       IF account.verified THEN 0 ELSE 1000 >>

RECURSIVE SumSeq(_)
SumSeq(q) == IF q = <<>> THEN 0 ELSE Head(q) + SumSeq(Tail(q))

\* BotDetector.fallbackCalculation: weights 0.1, 0.2, 0.05, 0.05, 0.1, 0.2 and
\* 0.3 / 7 for each signal, the sum clamped to [0, 1]
fallbackCalculation(features, signals) ==
    LET sum == 100 * features[1] + 200 * features[2] + 50 * features[3]
               + 50 * features[4] + 100 * features[5] + 200 * features[6]
               + (300 * SumSeq(signals)) \div Len(signals)
    IN  Min(1000000, Max(0, sum))

\* classify with > in place of >=
classifyAbove(probability) ==
    IF probability > 800000 THEN "bot"
    ELSE IF probability > 600000 THEN "cyborg"
    ELSE IF probability > 400000 THEN "uncertain"
    ELSE "human"

\* BotDetector.classify with thresholds 0.8, 0.6, 0.4
classify(probability) ==
    IF probability >= 800000 THEN "bot"
    ELSE IF probability >= 600000 THEN "cyborg"
    ELSE IF probability >= 400000 THEN "uncertain"
    ELSE "human"

\* BotDetector.analyzeAccount at wall-clock time t
analyzeAccount(account, t) ==
    LET signals == extractSignals(account, t)
        probability == fallbackCalculation(prepareFeatures(account, t), signals)
    IN  [accountId |-> account.id,
         botProbability |-> probability,
         signals |-> signals,
         classification |-> classify(probability)]

-----------------------------------------------------------------------------
(* The pipeline run repeatedly on one unchanged dataset *)

MaxTicks == 2
MaxRuns == 2

\* steps by which the clock advances between two runs: a second, a minute,
\* two days
ClockSteps == {1, 60, 2 * DaySeconds}

\* values Math.random() can take (abstracted to two)
RandomValues == {0, 1}

\* the run starts when the account is 29 days old
StartTime == 29 * DaySeconds

\* datasets: one account (the original author), with some number of clusters
\* of at least 3 connected accounts and some number of depth-0 events that
\* trigger the star pattern rule
Datasets ==
    { [account |-> [id |-> "u1", createdAt |-> 0, followersCount |-> f,
                    followingCount |-> 500, tweetCount |-> 400,
                    verified |-> FALSE, profileScore |-> p[1],
                    defaultImageScore |-> p[2], usernameScore |-> p[3]],
       clusters |-> c, stars |-> st]
      : f \in {800, 2000}, p \in {<<200, 0, 0>>, <<300, 1000, 400>>},
        c \in 0..1, st \in 0..1 }

\* NetworkAnalyzer.analyzeCluster: id = `cluster-${Date.now()}-${Math.random()}`
analyzeClusterId(t, rnd) == <<"cluster", t, rnd>>

\* AnomalyDetector.detectNetworkAnomalies, star pattern: timestamp = new Date();
\* with the key prioritizeAnomalies gives it (the minute of the timestamp)
starAnomaly(accountId, t) ==
    [id |-> <<"network-star", accountId>>,
     type |-> "network",
     timestamp |-> t,
     key |-> <<"network", <<accountId>>, t \div 60>>]

\* the four results of one run of the pipeline at time t with random value rnd
RunPipelineAt(d, t, rnd) ==
    [bots |-> <<analyzeAccount(d.account, t)>>,
     clusters |-> [i \in 1..d.clusters |-> analyzeClusterId(t, rnd)],
     anomalies |-> [i \in 1..d.stars |-> starAnomaly(d.account.id, t)]]

RerunStart ==
    /\ now = StartTime
    /\ ticks = 0
    /\ dataset \in Datasets
    /\ runs = <<>>

\* time passes
Tick ==
    /\ UNCHANGED nonRerunVars
    /\ ticks < MaxTicks
    /\ \E d \in ClockSteps : now' = now + d
    /\ ticks' = ticks + 1
    /\ UNCHANGED <<dataset, runs>>

\* one run of the full pipeline on the dataset
RunPipeline ==
    /\ UNCHANGED nonRerunVars
    /\ Len(runs) < MaxRuns
    /\ \E rnd \in RandomValues :
         runs' = Append(runs, [at |-> now, out |-> RunPipelineAt(dataset, now, rnd)])
    /\ UNCHANGED <<now, ticks, dataset>>

InitRerun ==
    RerunStart /\ EngineStart /\ IdleStore /\ IdleAnomaly /\ IdleMerge /\ IdleGraph
    /\ IdleClassify
    /\ IdleCollector
    /\ IdleReadOnly
    /\ IdleIndex
    /\ IdleRate

NextRerun == Tick \/ RunPipeline

SpecRerun == InitRerun /\ [][NextRerun]_vars

\* C7 as stated: two runs on the same dataset at different times give the
\* same results
C7_Stated ==
    \A i, j \in DOMAIN runs :
        runs[i].at # runs[j].at => runs[i].out = runs[j].out

-----------------------------------------------------------------------------
(* AnomalyDetector.prioritizeAnomalies *)

MaxAnomalies == 2

AnomalyAccounts == {<<"a">>, <<"a", "b">>, <<"b", "a">>}
AnomalyTimes == {0, 59, 60}

\* detectBehaviorAnomalies: one anomaly for each change of each behavior
\* group, severity medium or high, confidence 0.7 (in hundredths), the accounts
\* of the later window in the order of their first event
BehaviorAnomalies ==
    { [type |-> "behavior", severity |-> sv, timestamp |-> t,
       affectedAccounts |-> acc, confidence |-> 70]
      : sv \in {"medium", "high"}, t \in AnomalyTimes, acc \in AnomalyAccounts }

\* detectNetworkAnomalies, deep cascade: severity high, confidence 0.8
DepthAnomalies ==
    { [type |-> "network", severity |-> "high", timestamp |-> t,
       affectedAccounts |-> acc, confidence |-> 80]
      : t \in AnomalyTimes, acc \in AnomalyAccounts }

\* detectNetworkAnomalies, star pattern of one account: severity high,
\* confidence 0.9
StarAnomalies ==
    { [type |-> "network", severity |-> "high", timestamp |-> t,
       affectedAccounts |-> <<x>>, confidence |-> 90]
      : t \in AnomalyTimes, x \in {"a", "b"} }

\* AnomalyDetector.getSeverityScore
getSeverityScore(anomaly) ==
    CASE anomaly.severity = "critical" -> 4
      [] anomaly.severity = "high" -> 3
      [] anomaly.severity = "medium" -> 2
      [] anomaly.severity = "low" -> 1
      [] OTHER -> 0

\* prioritizeAnomalies: key = `${type}-${affectedAccounts.join(',')}-${
\* Math.floor(timestamp.getTime() / 60000)}`; the accounts are joined in the
\* order of the array
anomalyKey(anomaly) ==
    <<anomaly.type, anomaly.affectedAccounts, anomaly.timestamp \div 60>>

\* unique.set(key, anomaly) when the key is new or the severity is higher; a
\* Map keeps the position of the first insertion of a key
RECURSIVE uniqueAnomalies(_, _)
uniqueAnomalies(rest, unique) ==
    IF rest = <<>> THEN unique
    ELSE LET a == Head(rest)
             at == {i \in 1..Len(unique) : anomalyKey(unique[i]) = anomalyKey(a)}
         IN  IF at = {}
             THEN uniqueAnomalies(Tail(rest), Append(unique, a))
             ELSE LET i == CHOOSE k \in at : TRUE IN
                  IF getSeverityScore(a) > getSeverityScore(unique[i])
                  THEN uniqueAnomalies(Tail(rest), [unique EXCEPT ![i] = a])
                  ELSE uniqueAnomalies(Tail(rest), unique)

rankScore(anomaly) == getSeverityScore(anomaly) * anomaly.confidence

\* Array.prototype.sort((a, b) => scoreB - scoreA): stable, descending
RECURSIVE insertRanked(_, _)
insertRanked(sorted, a) ==
    IF sorted = <<>> THEN <<a>>
    ELSE IF rankScore(Head(sorted)) >= rankScore(a)
         THEN <<Head(sorted)>> \o insertRanked(Tail(sorted), a)
         ELSE <<a>> \o sorted

RECURSIVE sortRanked(_, _)
sortRanked(rest, sorted) ==
    IF rest = <<>> THEN sorted
    ELSE sortRanked(Tail(rest), insertRanked(sorted, Head(rest)))

\* AnomalyDetector.prioritizeAnomalies
prioritizeAnomalies(list) == sortRanked(uniqueAnomalies(list, <<>>), <<>>)

MaxEvents == 11

minEventsForAnalysis == 10

\* extractTimeline: the original tweet at depth 0, then the retweets at depth 1
TimelineOf(n) ==
    IF n = 0 THEN <<>>
    ELSE <<[type |-> "original", accountId |-> "a", timestamp |-> 0,
            cascadeDepth |-> 0]>>
         \o [i \in 1..(n - 1) |->
                [type |-> "retweet", accountId |-> "b", timestamp |-> 60,
                 cascadeDepth |-> 1]]

Timelines == {TimelineOf(n) : n \in 0..MaxEvents}

\* detectAnomalies analyses a timeline with any event at all
EnoughEventsNonEmpty(list) == Len(list) >= 1

\* the negation of if (timeline.length < this.minEventsForAnalysis)
EnoughEvents(list) == Len(list) >= minEventsForAnalysis

AnomalyStart ==
    /\ anPc = "detecting"
    /\ timeline \in Timelines
    /\ anWrites = 0
    /\ anomalies = <<>>
    /\ prioritized = <<>>

\* if (timeline.length < this.minEventsForAnalysis) return []
ReturnEmpty ==
    /\ UNCHANGED nonAnomalyVars
    /\ anPc = "detecting"
    /\ ~EnoughEvents(timeline)
    /\ prioritized' = <<>>
    /\ anPc' = "returned"
    /\ UNCHANGED <<timeline, anWrites, anomalies>>

Pushed(kind) == {i \in 1..Len(anomalies) : anomalies[i] \in kind}

\* anomalies.push(...behaviorAnomalies): the behavior detector runs before the
\* network detector
PushBehaviorAnomaly ==
    /\ UNCHANGED nonAnomalyVars
    /\ anPc = "detecting"
    /\ EnoughEvents(timeline)
    /\ Len(anomalies) < MaxAnomalies
    /\ Pushed(DepthAnomalies \cup StarAnomalies) = {}
    /\ \E a \in BehaviorAnomalies : anomalies' = Append(anomalies, a)
    /\ UNCHANGED <<anPc, timeline, anWrites, prioritized>>

\* detectNetworkAnomalies, if (maxDepth > 10): at most one, before the stars
PushDepthAnomaly ==
    /\ UNCHANGED nonAnomalyVars
    /\ anPc = "detecting"
    /\ EnoughEvents(timeline)
    /\ Len(anomalies) < MaxAnomalies
    /\ Pushed(DepthAnomalies \cup StarAnomalies) = {}
    /\ \E a \in DepthAnomalies : anomalies' = Append(anomalies, a)
    /\ UNCHANGED <<anPc, timeline, anWrites, prioritized>>

\* detectNetworkAnomalies, if (count > 20): one for each account of
\* triggerCounts, all stamped by new Date() within the same call
PushStarAnomaly ==
    /\ UNCHANGED nonAnomalyVars
    /\ anPc = "detecting"
    /\ EnoughEvents(timeline)
    /\ Len(anomalies) < MaxAnomalies
    /\ \E a \in StarAnomalies :
          /\ \A i \in Pushed(StarAnomalies) :
                /\ anomalies[i].affectedAccounts # a.affectedAccounts
                /\ anomalies[i].timestamp = a.timestamp
          /\ \A i \in Pushed(DepthAnomalies) : anomalies[i].timestamp = a.timestamp
          /\ anomalies' = Append(anomalies, a)
    /\ UNCHANGED <<anPc, timeline, anWrites, prioritized>>

\* const prioritizedAnomalies = this.prioritizeAnomalies(anomalies); await
\* this.storeAnomalies(prioritizedAnomalies, analysisId), one query for each;
\* return prioritizedAnomalies
PrioritizeAnomalies ==
    /\ UNCHANGED nonAnomalyVars
    /\ anPc = "detecting"
    /\ EnoughEvents(timeline)
    /\ prioritized' = prioritizeAnomalies(anomalies)
    /\ anWrites' = Len(prioritizeAnomalies(anomalies))
    /\ anPc' = "returned"
    /\ UNCHANGED <<timeline, anomalies>>

InitAnomaly ==
    AnomalyStart /\ EngineStart /\ IdleStore /\ IdleRerun /\ IdleMerge /\ IdleGraph
    /\ IdleClassify
    /\ IdleCollector
    /\ IdleReadOnly
    /\ IdleIndex
    /\ IdleRate

NextAnomaly ==
    \/ PushBehaviorAnomaly
    \/ PushDepthAnomaly
    \/ PushStarAnomaly
    \/ PrioritizeAnomalies
    \/ ReturnEmpty

SpecAnomaly == InitAnomaly /\ [][NextAnomaly]_vars

AccountSet(anomaly) ==
    {anomaly.affectedAccounts[i] : i \in 1..Len(anomaly.affectedAccounts)}

\* same type, same set of affected accounts, same minute
SameIncident(x, y) ==
    /\ x.type = y.type
    /\ AccountSet(x) = AccountSet(y)
    /\ x.timestamp \div 60 = y.timestamp \div 60

\* C8 as stated: the returned list holds no two anomalies of the same type,
\* account set and minute, and for each pushed anomaly it holds one of that
\* type, account set and minute with at least its severity
C8_Stated ==
    anPc = "returned" =>
        /\ \A i, j \in 1..Len(prioritized) :
              i # j => ~SameIncident(prioritized[i], prioritized[j])
        /\ \A k \in 1..Len(anomalies) :
              \E i \in 1..Len(prioritized) :
                  /\ SameIncident(anomalies[k], prioritized[i])
                  /\ getSeverityScore(prioritized[i]) >= getSeverityScore(anomalies[k])

\* C14: for a timeline with fewer than 10 events, the empty one included,
\* detectAnomalies returns (it does not throw), the list it returns is empty
\* and it issued no storage write
C14_ShortTimelineEmpty ==
    Len(timeline) < 10 =>
        /\ anPc \in {"detecting", "returned"}
        /\ anomalies = <<>>
        /\ prioritized = <<>>
        /\ anWrites = 0

\* detectAnomalies returned for a timeline of 9 events
C14_Witness ==
    /\ anPc = "returned"
    /\ Len(timeline) = 9
    /\ prioritized = <<>>

-----------------------------------------------------------------------------
(* CoordinationDetector.mergePatterns *)

MaxPatterns == 3

minGroupSize == 3

CoordinationAccounts == {"a", "b", "c", "d", "e"}

\* the account groups a detector reports: at least minGroupSize distinct accounts
AccountGroups ==
    {g \in SUBSET CoordinationAccounts : Cardinality(g) = minGroupSize}

\* createTemporalPattern / createContentPattern: accounts (distinct), type,
\* confidence (in thousandths), timeWindow (in seconds); the evidence is filled
\* in when the pattern is pushed
DetectedPatterns ==
    { [accounts |-> g, type |-> k[1], confidence |-> Num(k[2]),
       timeWindow |-> [start |-> k[3], end |-> k[3] + 120]]
      : g \in AccountGroups,
        k \in {<<"temporal", 600, 0>>, <<"content", 900, 600>>} }

WithEvidence(p, ev) ==
    [accounts |-> p.accounts, type |-> p.type, confidence |-> p.confidence,
     timeWindow |-> p.timeWindow, evidence |-> ev]

\* the inner loop of mergePatterns, for (let j = i + 1; ...): each pattern not
\* yet used that shares minGroupSize - 1 accounts with the accounts gathered
\* SO FAR is absorbed
RECURSIVE absorbPatterns(_, _, _)
absorbPatterns(list, j, acc) ==
    IF j > Len(list) THEN acc
    ELSE IF j \in acc.used
         THEN absorbPatterns(list, j + 1, acc)
         ELSE IF Cardinality(list[j].accounts \cap acc.accountSet) >= minGroupSize - 1
              THEN absorbPatterns(list, j + 1,
                       [accountSet |-> acc.accountSet \cup list[j].accounts,
                        evidenceList |-> acc.evidenceList \o list[j].evidence,
                        used |-> acc.used \cup {j}])
              ELSE absorbPatterns(list, j + 1, acc)

\* Math.max(basePattern.confidence, ...patterns.filter((_, idx) =>
\* used.has(idx)).map(p => p.confidence)): over every index used so far
mergedConfidence(list, i, used) ==
    LET cs == {list[i].confidence} \cup {list[k].confidence : k \in used}
    IN  IF \E c \in cs : c.nan THEN NaN
        ELSE CHOOSE c \in cs : \A d \in cs : d.v <= c.v

\* the outer loop of mergePatterns, for (let i = 0; ...), one pass
RECURSIVE mergeFrom(_, _, _, _)
mergeFrom(list, i, used, merged) ==
    IF i > Len(list) THEN merged
    ELSE IF i \in used
         THEN mergeFrom(list, i + 1, used, merged)
         ELSE LET acc == absorbPatterns(list, i + 1,
                             [accountSet |-> list[i].accounts,
                              evidenceList |-> list[i].evidence,
                              used |-> used])
                  m == [accounts |-> acc.accountSet,
                        type |-> "mixed",
                        confidence |-> mergedConfidence(list, i, acc.used),
                        timeWindow |-> list[i].timeWindow,
                        evidence |-> acc.evidenceList]
              IN  mergeFrom(list, i + 1, acc.used, Append(merged, m))

\* CoordinationDetector.mergePatterns
mergePatterns(list) == mergeFrom(list, 1, {}, <<>>)

MergeStart == IdleMerge

\* patterns.push(...temporalPatterns), patterns.push(...contentPatterns): the
\* temporal detector runs before the content detector
PushPattern ==
    /\ UNCHANGED nonMergeVars
    /\ mgPc = "detecting"
    /\ Len(patterns) < MaxPatterns
    /\ \E p \in DetectedPatterns :
          /\ p.type = "temporal" =>
                \A i \in 1..Len(patterns) : patterns[i].type = "temporal"
          /\ patterns' = Append(patterns, WithEvidence(p, <<Len(patterns) + 1>>))
    /\ UNCHANGED <<mgPc, activities, mergedPatterns, remerged>>

\* const mergedPatterns = this.mergePatterns(patterns)
MergePatterns ==
    /\ UNCHANGED nonMergeVars
    /\ mgPc = "detecting"
    /\ mergedPatterns' = mergePatterns(patterns)
    /\ mgPc' = "merged"
    /\ UNCHANGED <<activities, patterns, remerged>>

\* mergePatterns applied to the list it returned
MergeAgain ==
    /\ UNCHANGED nonMergeVars
    /\ mgPc = "merged"
    /\ remerged' = mergePatterns(mergedPatterns)
    /\ mgPc' = "remerged"
    /\ UNCHANGED <<activities, patterns, mergedPatterns>>

InitMerge ==
    MergeStart /\ EngineStart /\ IdleStore /\ IdleRerun /\ IdleAnomaly /\ IdleGraph
    /\ IdleClassify
    /\ IdleCollector
    /\ IdleReadOnly
    /\ IdleIndex
    /\ IdleRate

NextMerge == PushPattern \/ MergePatterns \/ MergeAgain

SpecMerge == InitMerge /\ [][NextMerge]_vars

AccountSetsOf(list) == {list[i].accounts : i \in 1..Len(list)}

\* C9 as stated: in the output of one merge pass no two surviving patterns
\* share 2 or more accounts, and applying mergePatterns to that output yields
\* the same account sets
C9_Stated ==
    /\ mgPc \in {"merged", "remerged"} =>
          \A i, j \in 1..Len(mergedPatterns) :
              i # j => Cardinality(mergedPatterns[i].accounts
                                   \cap mergedPatterns[j].accounts) < 2
    /\ mgPc = "remerged" =>
          /\ Len(remerged) = Len(mergedPatterns)
          /\ AccountSetsOf(remerged) = AccountSetsOf(mergedPatterns)

\* the detected patterns unioned into a returned pattern: each detected pattern
\* carries its own index as its evidence, and the evidence of a returned
\* pattern is the concatenation of the evidence of the patterns unioned into it
UnionedInto(m) == {m.evidence[k] : k \in 1..Len(m.evidence)}

\* C22 as stated: a returned pattern has type 'mixed' only when it is the
\* union of two or more detected patterns; a detected pattern that no other
\* pattern was unioned with is returned with the type of its detector
C22_Stated ==
    mgPc \in {"merged", "remerged"} =>
        \A i \in 1..Len(mergedPatterns) :
            LET m == mergedPatterns[i]
                group == UnionedInto(m)
            IN  /\ m.type = "mixed" => Cardinality(group) >= 2
                /\ Cardinality(group) = 1 =>
                      \A k \in group : m.type = patterns[k].type

\* C20 as stated: after merging, the confidence of each returned pattern is the
\* maximum confidence among exactly the detected patterns that were unioned
\* into it; a pattern merged into a different group does not affect it
C20_Stated ==
    mgPc \in {"merged", "remerged"} =>
        \A i \in 1..Len(mergedPatterns) :
            LET m == mergedPatterns[i]
                group == UnionedInto(m)
            IN  /\ \E k \in group : patterns[k].confidence = m.confidence
                /\ \A k \in group : patterns[k].confidence.v <= m.confidence.v

-----------------------------------------------------------------------------
(* NetworkAnalyzer.buildNetworkGraph *)

MaxInteractions == 3

GraphAccounts == {"u0", "u1", "u2"}

\* originalTweet.createdAt: before the interactions or with the first of them
OriginalTimes == {0, 10}

\* a retweet, quote or reply of the dataset: its author and createdAt
Interactions == [authorId : GraphAccounts, createdAt : {10, 20}]

HasNode(nodeMap, accountId) ==
    \E i \in 1..Len(nodeMap) : nodeMap[i].accountId = accountId

\* addNodeAndEdge without its if (!nodeMap.has(accountId)): the node of the
\* account is always set to a spreader node
addNodeAndEdgeAlwaysSets(g, accountId, targetId, type, timestamp, weight) ==
    LET node == [accountId |-> accountId, type |-> "spreader", influence |-> 0,
                 connections |-> <<>>, timestamp |-> timestamp]
        edge == [source |-> accountId, target |-> targetId, type |-> type,
                 weight |-> weight, timestamp |-> timestamp]
    IN  [nodeMap |-> IF HasNode(g.nodeMap, accountId)
                     THEN [i \in 1..Len(g.nodeMap) |->
                              IF g.nodeMap[i].accountId = accountId
                              THEN node ELSE g.nodeMap[i]]
                     ELSE Append(g.nodeMap, node),
         edges |-> Append(g.edges, edge)]

\* NetworkAnalyzer.addNodeAndEdge; weight in tenths
addNodeAndEdge(g, accountId, targetId, type, timestamp, weight) ==
    LET node == [accountId |-> accountId, type |-> "spreader", influence |-> 0,
                 connections |-> <<>>, timestamp |-> timestamp]
        edge == [source |-> accountId, target |-> targetId, type |-> type,
                 weight |-> weight, timestamp |-> timestamp]
    IN  [nodeMap |-> IF ~HasNode(g.nodeMap, accountId)
                     THEN Append(g.nodeMap, node)
                     ELSE g.nodeMap,
         edges |-> Append(g.edges, edge)]

\* for (const item of list) this.addNodeAndEdge(nodeMap, edges, item.authorId,
\* spreadData.originalTweet.authorId, type, item.createdAt, weight)
RECURSIVE addAll(_, _, _, _, _)
addAll(g, list, targetId, type, weight) ==
    IF list = <<>> THEN g
    ELSE addAll(addNodeAndEdge(g, Head(list).authorId, targetId, type,
                               Head(list).createdAt, weight),
                Tail(list), targetId, type, weight)

Includes(seq, x) == \E i \in 1..Len(seq) : seq[i] = x

\* connections.push(other) of the node of accountId unless it includes it
Connect(nodeMap, accountId, other) ==
    [i \in 1..Len(nodeMap) |->
        IF nodeMap[i].accountId = accountId /\ ~Includes(nodeMap[i].connections, other)
        THEN [nodeMap[i] EXCEPT !.connections = Append(@, other)]
        ELSE nodeMap[i]]

\* "Update node connections": for (const edge of edges)
RECURSIVE updateConnections(_, _)
updateConnections(nodeMap, rest) ==
    IF rest = <<>> THEN nodeMap
    ELSE updateConnections(
             Connect(Connect(nodeMap, Head(rest).source, Head(rest).target),
                     Head(rest).target, Head(rest).source),
             Tail(rest))

\* NetworkAnalyzer.buildNetworkGraph
buildNetworkGraph(data) ==
    LET sourceNode == [accountId |-> data.authorId, type |-> "source",
                       influence |-> 100, connections |-> <<>>,
                       timestamp |-> data.createdAt]
        g0 == [nodeMap |-> <<sourceNode>>, edges |-> <<>>]
        g1 == addAll(g0, data.retweets, data.authorId, "retweet", 10)
        g2 == addAll(g1, data.quotes, data.authorId, "quote", 20)
        g3 == addAll(g2, data.replies, data.authorId, "reply", 15)
    IN  [nodes |-> updateConnections(g3.nodeMap, g3.edges), edges |-> g3.edges]

InteractionCount ==
    Len(spreadData.retweets) + Len(spreadData.quotes) + Len(spreadData.replies)

\* the datasets differ in the author of the original tweet
GraphStart ==
    /\ grPc = "collecting"
    /\ \E a \in GraphAccounts, t \in OriginalTimes :
          spreadData = [authorId |-> a, createdAt |-> t, retweets |-> <<>>,
                        quotes |-> <<>>, replies |-> <<>>]
    /\ nodes = <<>>
    /\ edges = <<>>
    /\ clusters = <<>>
    /\ influencers = <<>>
    /\ propagationPaths = <<>>

\* the collector appends a retweet to the dataset
AddRetweet ==
    /\ UNCHANGED nonGraphVars
    /\ grPc = "collecting"
    /\ InteractionCount < MaxInteractions
    /\ \E x \in Interactions :
          spreadData' = [spreadData EXCEPT !.retweets = Append(@, x)]
    /\ UNCHANGED <<grPc, nodes, edges, analysisVars>>

\* the collector appends a quote to the dataset
AddQuote ==
    /\ UNCHANGED nonGraphVars
    /\ grPc = "collecting"
    /\ InteractionCount < MaxInteractions
    /\ \E x \in Interactions :
          spreadData' = [spreadData EXCEPT !.quotes = Append(@, x)]
    /\ UNCHANGED <<grPc, nodes, edges, analysisVars>>

\* the collector appends a reply to the dataset
AddReply ==
    /\ UNCHANGED nonGraphVars
    /\ grPc = "collecting"
    /\ InteractionCount < MaxInteractions
    /\ \E x \in Interactions :
          spreadData' = [spreadData EXCEPT !.replies = Append(@, x)]
    /\ UNCHANGED <<grPc, nodes, edges, analysisVars>>

\* const { nodes, edges } = this.buildNetworkGraph(spreadData)
BuildNetworkGraph ==
    /\ UNCHANGED nonGraphVars
    /\ grPc = "collecting"
    /\ nodes' = buildNetworkGraph(spreadData).nodes
    /\ edges' = buildNetworkGraph(spreadData).edges
    /\ grPc' = "built"
    /\ UNCHANGED <<spreadData, analysisVars>>

InitGraph ==
    GraphStart /\ EngineStart /\ IdleStore /\ IdleRerun /\ IdleAnomaly /\ IdleMerge
    /\ IdleClassify
    /\ IdleCollector
    /\ IdleReadOnly
    /\ IdleIndex
    /\ IdleRate

NextGraph == AddRetweet \/ AddQuote \/ AddReply \/ BuildNetworkGraph

SpecGraph == InitGraph /\ [][NextGraph]_vars

Spreaders ==
    {spreadData.retweets[i].authorId : i \in 1..Len(spreadData.retweets)}
    \cup {spreadData.quotes[i].authorId : i \in 1..Len(spreadData.quotes)}
    \cup {spreadData.replies[i].authorId : i \in 1..Len(spreadData.replies)}

\* C10: the built graph has exactly one node of type 'source', the account of
\* that node is the author of the original tweet (also when the author is
\* among the retweets, quotes or replies), and the target of every edge is
\* the id of the original author
C10_OneSourceNode ==
    grPc = "built" =>
        /\ Cardinality({i \in 1..Len(nodes) : nodes[i].type = "source"}) = 1
        /\ \A i \in 1..Len(nodes) :
              nodes[i].type = "source" => nodes[i].accountId = spreadData.authorId
        /\ \A i \in 1..Len(edges) : edges[i].target = spreadData.authorId

\* a graph built from a dataset in which the author also spread the tweet and
\* somebody else did as well
C10_Witness ==
    /\ grPc = "built"
    /\ spreadData.authorId \in Spreaders
    /\ Spreaders # {spreadData.authorId}
    /\ Len(edges) = InteractionCount
    /\ Len(nodes) = Cardinality(Spreaders)

-----------------------------------------------------------------------------
(* NetworkAnalyzer.analyzeNetwork after the graph is built.  Scores are in  *)
(* thousandths; a score is a record so that NaN is a value of its own.      *)

\* adjacencyList.get(a)?.add(b): a Set, in insertion order
AddNeighbor(adj, a, b) ==
    IF a \in DOMAIN adj /\ ~Includes(adj[a], b)
    THEN [adj EXCEPT ![a] = Append(@, b)]
    ELSE adj

RECURSIVE addAdjacency(_, _)
addAdjacency(adj, rest) ==
    IF rest = <<>> THEN adj
    ELSE addAdjacency(
             AddNeighbor(AddNeighbor(adj, Head(rest).source, Head(rest).target),
                         Head(rest).target, Head(rest).source),
             Tail(rest))

\* NetworkAnalyzer.buildAdjacencyList
buildAdjacencyList(allNodes, allEdges) ==
    addAdjacency([a \in {allNodes[i].accountId : i \in 1..Len(allNodes)} |-> <<>>],
                 allEdges)

\* NetworkAnalyzer.expandCluster: breadth first from the queue; the result is
\* the cluster and the visited set
RECURSIVE expandCluster(_, _, _, _)
expandCluster(queue, adj, visited, cluster) ==
    IF queue = <<>> THEN [cluster |-> cluster, visited |-> visited]
    ELSE LET current == Head(queue) IN
         IF current \in visited
         THEN expandCluster(Tail(queue), adj, visited, cluster)
         ELSE LET seen == visited \cup {current}
                  Unvisited(x) == x \notin seen
                  neighbors == IF current \in DOMAIN adj THEN adj[current] ELSE <<>>
              IN  expandCluster(Tail(queue) \o SelectSeq(neighbors, Unvisited),
                                adj, seen, Append(cluster, current))

RECURSIVE insertSorted(_, _)
insertSorted(sorted, x) ==
    IF sorted = <<>> THEN <<x>>
    ELSE IF Head(sorted) <= x
         THEN <<Head(sorted)>> \o insertSorted(Tail(sorted), x)
         ELSE <<x>> \o sorted

\* timestamps.sort((a, b) => a.getTime() - b.getTime())
RECURSIVE sortTimes(_, _)
sortTimes(rest, sorted) ==
    IF rest = <<>> THEN sorted
    ELSE sortTimes(Tail(rest), insertSorted(sorted, Head(rest)))

\* intervals.push(sorted[i].getTime() - sorted[i-1].getTime())
intervalsOf(sorted) == [i \in 1..(Len(sorted) - 1) |-> sorted[i + 1] - sorted[i]]

RECURSIVE SumSquares(_)
SumSquares(q) == IF q = <<>> THEN 0 ELSE Head(q) * Head(q) + SumSquares(Tail(q))

\* Math.sqrt, rounded down; hi is an upper bound of the root
Isqrt(x, hi) == CHOOSE r \in 0..hi : r * r <= x /\ (r + 1) * (r + 1) > x

\* NetworkAnalyzer.calculateCoordinationScore: Math.max(0, 1 - stdDev /
\* avgInterval); with every interval 0 the quotient is 0 / 0 = NaN and
\* Math.max(0, NaN) is NaN.  cv^2 = (k * sum of squares - sum^2) / sum^2
calculateCoordinationScore(timestamps) ==
    IF Len(timestamps) < 2 THEN Num(0)
    ELSE LET intervals == intervalsOf(sortTimes(timestamps, <<>>))
             k == Len(intervals)
             total == SumSeq(intervals)
         IN  IF total = 0 THEN NaN
             ELSE LET spread == k * SumSquares(intervals) - total * total
                      cv == (10 * Isqrt(10000 * spread, 100 * k * total))
                                \div total
                  IN  Num(Max(0, 1000 - cv))

\* NetworkAnalyzer.calculateBurstiness (of the network analyzer)
calculateBurstiness(timestamps) ==
    IF Len(timestamps) < 2 THEN Num(0)
    ELSE LET sorted == sortTimes(timestamps, <<>>)
             timeRange == sorted[Len(sorted)] - sorted[1]
             intervals == intervalsOf(sorted)
             short == {i \in 1..Len(intervals) :
                          2 * intervals[i] * (Len(timestamps) - 1) < timeRange}
         IN  IF timeRange = 0 THEN Num(1000)
             ELSE Num((1000 * Cardinality(short)) \div Len(intervals))

\* NetworkAnalyzer.calculateClusterCoherence: edges.length / (n (n - 1) / 2)
calculateClusterCoherence(clusterNodes, clusterEdges) ==
    LET n == Len(clusterNodes) IN
    IF n < 2 THEN Num(0)
    ELSE Num((1000 * Len(clusterEdges)) \div ((n * (n - 1)) \div 2))

\* NetworkAnalyzer.calculateSuspicionScore: Math.min(1, coordinationScore * 0.4
\* + burstiness * 0.3 + coherence * 0.3); Math.min(1, NaN) is NaN
calculateSuspicionScore(coordinationScore, burstiness, coherence) ==
    IF coordinationScore.nan \/ burstiness.nan \/ coherence.nan THEN NaN
    ELSE Num(Min(1000, (400 * coordinationScore.v + 300 * burstiness.v
                        + 300 * coherence.v) \div 1000))

TimestampOf(allNodes, accountId) ==
    LET i == CHOOSE k \in 1..Len(allNodes) : allNodes[k].accountId = accountId
    IN  allNodes[i].timestamp

\* NetworkAnalyzer.analyzeCluster with calculateActivityPattern (the id, the
\* time distribution and the content similarity are left out)
analyzeCluster(clusterNodes, allNodes, allEdges) ==
    LET InCluster(e) == Includes(clusterNodes, e.source) /\ Includes(clusterNodes, e.target)
        clusterEdges == SelectSeq(allEdges, InCluster)
        timestamps == [i \in 1..Len(clusterNodes) |->
                          TimestampOf(allNodes, clusterNodes[i])]
        coordinationScore == calculateCoordinationScore(timestamps)
        burstiness == calculateBurstiness(timestamps)
        coherence == calculateClusterCoherence(clusterNodes, clusterEdges)
    IN  [nodes |-> clusterNodes,
         coherence |-> coherence,
         coordinationScore |-> coordinationScore,
         burstiness |-> burstiness,
         suspicionScore |-> calculateSuspicionScore(coordinationScore, burstiness,
                                                    coherence)]

\* the loop of detectClusters with if (cluster.length > 3)
RECURSIVE detectFromAboveThree(_, _, _, _, _, _)
detectFromAboveThree(i, allNodes, allEdges, adj, visited, found) ==
    IF i > Len(allNodes) THEN found
    ELSE IF allNodes[i].accountId \in visited
         THEN detectFromAboveThree(i + 1, allNodes, allEdges, adj, visited, found)
         ELSE LET r == expandCluster(<<allNodes[i].accountId>>, adj, visited, <<>>)
              IN  detectFromAboveThree(i + 1, allNodes, allEdges, adj, r.visited,
                             IF Len(r.cluster) > 3
                             THEN Append(found, analyzeCluster(r.cluster, allNodes,
                                                               allEdges))
                             ELSE found)

\* the loop of detectClusters over the nodes
RECURSIVE detectFrom(_, _, _, _, _, _)
detectFrom(i, allNodes, allEdges, adj, visited, found) ==
    IF i > Len(allNodes) THEN found
    ELSE IF allNodes[i].accountId \in visited
         THEN detectFrom(i + 1, allNodes, allEdges, adj, visited, found)
         ELSE LET r == expandCluster(<<allNodes[i].accountId>>, adj, visited, <<>>)
              IN  detectFrom(i + 1, allNodes, allEdges, adj, r.visited,
                             IF Len(r.cluster) >= 3
                             THEN Append(found, analyzeCluster(r.cluster, allNodes,
                                                               allEdges))
                             ELSE found)

\* NetworkAnalyzer.detectClusters
detectClusters(allNodes, allEdges) ==
    detectFrom(1, allNodes, allEdges, buildAdjacencyList(allNodes, allEdges), {}, <<>>)

\* NetworkAnalyzer.calculateDegrees: each edge counts for its source and for
\* its target
calculateDegrees(accountId, allEdges) ==
    Cardinality({i \in 1..Len(allEdges) : allEdges[i].source = accountId})
    + Cardinality({i \in 1..Len(allEdges) : allEdges[i].target = accountId})

\* NetworkAnalyzer.bfsReach: the queue holds <<node, depth>>
RECURSIVE bfsReach(_, _, _, _)
bfsReach(queue, adj, visited, reach) ==
    IF queue = <<>> THEN reach
    ELSE LET node == Head(queue)[1]
             depth == Head(queue)[2]
         IN  IF node \in visited
             THEN bfsReach(Tail(queue), adj, visited, reach)
             ELSE LET seen == visited \cup {node}
                      Unvisited(x) == x \notin seen
                      neighbors == IF node \in DOMAIN adj
                                   THEN SelectSeq(adj[node], Unvisited) ELSE <<>>
                  IN  bfsReach(Tail(queue) \o [i \in 1..Len(neighbors) |->
                                                  <<neighbors[i], depth + 1>>],
                               adj, seen,
                               [direct |-> reach.direct + (IF depth = 1 THEN 1 ELSE 0),
                                indirect |-> reach.indirect + (IF depth > 1 THEN 1 ELSE 0),
                                depth |-> Max(reach.depth, depth)])

RECURSIVE SumTimes(_)
SumTimes(q) == IF q = <<>> THEN 0 ELSE Head(q).timestamp + SumTimes(Tail(q))

\* calculateInfluenceScore with the base influence of a spreader for every
\* node and no temporal component
calculateInfluenceScoreNoSource(node, degree, reach, allEdges) ==
    10000 + Min(3000 * degree, 30000) + 1000 * reach.direct + 500 * reach.indirect

\* NetworkAnalyzer.calculateInfluenceScore, in thousandths.  With no edge at
\* all Math.min(...[]) is Infinity and timeRange is -Infinity, not > 0
calculateInfluenceScore(node, degree, reach, allEdges) ==
    LET baseInfluence == IF node.type = "source" THEN 50000 ELSE 10000
        degreeFactor == Min(3000 * degree, 30000)
        reachFactor == 1000 * reach.direct + 500 * reach.indirect
        FromNode(e) == e.source = node.accountId
        nodeEdges == SelectSeq(allEdges, FromNode)
        count == IF nodeEdges = <<>> THEN 1 ELSE Len(nodeEdges)
        sum == IF nodeEdges = <<>> THEN node.timestamp ELSE SumTimes(nodeEdges)
        times == {allEdges[i].timestamp : i \in 1..Len(allEdges)}
        earliestTime == CHOOSE t \in times : \A u \in times : t <= u
        latestTime == CHOOSE t \in times : \A u \in times : u <= t
        timeRange == latestTime - earliestTime
        temporalFactor ==
            IF allEdges # <<>> /\ timeRange > 0
            THEN 20000 - (20000 * (sum - count * earliestTime)) \div (count * timeRange)
            ELSE 0
    IN  baseInfluence + degreeFactor + reachFactor + temporalFactor

\* NetworkAnalyzer.determineInfluencerRole
determineInfluencerRole(node, data) ==
    IF node.accountId = data.authorId THEN "originator"
    ELSE IF Len(node.connections) > 5 THEN "bridge"
    ELSE "amplifier"

\* influencers.sort((a, b) => b.influenceScore - a.influenceScore), stable
RECURSIVE insertInfluencer(_, _)
insertInfluencer(sorted, x) ==
    IF sorted = <<>> THEN <<x>>
    ELSE IF Head(sorted).influenceScore >= x.influenceScore
         THEN <<Head(sorted)>> \o insertInfluencer(Tail(sorted), x)
         ELSE <<x>> \o sorted

\* the loop of identifyInfluencers over the nodes, the threshold 10 and the
\* sort
RECURSIVE influencersFrom(_, _, _, _, _, _)
influencersFrom(i, allNodes, allEdges, adj, data, found) ==
    IF i > Len(allNodes) THEN found
    ELSE LET node == allNodes[i]
             degree == calculateDegrees(node.accountId, allEdges)
             reach == bfsReach(<< <<node.accountId, 0>> >>, adj, {},
                               [direct |-> 0, indirect |-> 0, depth |-> 0])
             influenceScore == calculateInfluenceScore(node, degree, reach, allEdges)
             entry == [accountId |-> node.accountId,
                       influenceScore |-> influenceScore,
                       reachMetrics |-> [directReach |-> reach.direct,
                                         indirectReach |-> reach.indirect,
                                         cascadeDepth |-> reach.depth],
                       role |-> determineInfluencerRole(node, data)]
         IN  influencersFrom(i + 1, allNodes, allEdges, adj, data,
                             IF influenceScore > 10000
                             THEN insertInfluencer(found, entry)
                             ELSE found)

\* NetworkAnalyzer.identifyInfluencers
identifyInfluencers(allNodes, allEdges, data) ==
    influencersFrom(1, allNodes, allEdges, buildAdjacencyList(allNodes, allEdges),
                    data, <<>>)

\* NetworkAnalyzer.findLeafNodes: the nodes with no outgoing edge
findLeafNodes(allNodes, allEdges) ==
    LET NoOutgoing(n) == \A i \in 1..Len(allEdges) : allEdges[i].source # n.accountId
    IN  SelectSeq(allNodes, NoOutgoing)

\* adjacencyMap.get(node) of findPath: the sources of the edges into node
ParentsOf(node, allEdges) ==
    LET Into(e) == e.target = node
        into == SelectSeq(allEdges, Into)
    IN  [i \in 1..Len(into) |-> into[i].source]

Reverse(q) == [i \in 1..Len(q) |-> q[Len(q) + 1 - i]]

\* NetworkAnalyzer.findPath: breadth first from the end towards the start;
\* the queue holds <<node, path>>
RECURSIVE findPath(_, _, _, _)
findPath(start, queue, allEdges, visited) ==
    IF queue = <<>> THEN <<>>
    ELSE LET node == Head(queue)[1]
             path == Head(queue)[2]
         IN  IF node = start THEN Reverse(path)
             ELSE IF node \in visited
                  THEN findPath(start, Tail(queue), allEdges, visited)
                  ELSE LET seen == visited \cup {node}
                           Unvisited(x) == x \notin seen
                           parents == SelectSeq(ParentsOf(node, allEdges), Unvisited)
                       IN  findPath(start,
                                    Tail(queue) \o [i \in 1..Len(parents) |->
                                        <<parents[i], Append(path, parents[i])>>],
                                    allEdges, seen)

\* NetworkAnalyzer.analyzeePath: the reach is the sum of the connections of
\* the nodes of the path (total time and velocity are left out)
RECURSIVE pathReach(_, _)
pathReach(path, allNodes) ==
    IF path = <<>> THEN 0
    ELSE LET i == CHOOSE k \in 1..Len(allNodes) : allNodes[k].accountId = Head(path)
         IN  Len(allNodes[i].connections) + pathReach(Tail(path), allNodes)

\* paths.sort((a, b) => b.reach - a.reach), stable
RECURSIVE insertPath(_, _)
insertPath(sorted, x) ==
    IF sorted = <<>> THEN <<x>>
    ELSE IF Head(sorted).reach >= x.reach
         THEN <<Head(sorted)>> \o insertPath(Tail(sorted), x)
         ELSE <<x>> \o sorted

\* the loop of tracePropagationPaths with if (path.length >= 1)
RECURSIVE pathsFromKeepingSingle(_, _, _, _, _)
pathsFromKeepingSingle(leaves, allNodes, allEdges, data, found) ==
    IF leaves = <<>> THEN found
    ELSE LET leaf == Head(leaves).accountId
             path == findPath(data.authorId, << <<leaf, <<leaf>> >> >>, allEdges, {})
         IN  pathsFromKeepingSingle(Tail(leaves), allNodes, allEdges, data,
                       IF Len(path) >= 1
                       THEN insertPath(found, [nodes |-> path,
                                               reach |-> pathReach(path, allNodes)])
                       ELSE found)

\* the loop of tracePropagationPaths over the leaf nodes
RECURSIVE pathsFrom(_, _, _, _, _)
pathsFrom(leaves, allNodes, allEdges, data, found) ==
    IF leaves = <<>> THEN found
    ELSE LET leaf == Head(leaves).accountId
             path == findPath(data.authorId, << <<leaf, <<leaf>> >> >>, allEdges, {})
         IN  pathsFrom(Tail(leaves), allNodes, allEdges, data,
                       IF Len(path) > 1
                       THEN insertPath(found, [nodes |-> path,
                                               reach |-> pathReach(path, allNodes)])
                       ELSE found)

\* NetworkAnalyzer.tracePropagationPaths: the top 10 paths
tracePropagationPaths(allNodes, allEdges, data) ==
    LET paths == pathsFrom(findLeafNodes(allNodes, allEdges), allNodes, allEdges,
                           data, <<>>)
    IN  SubSeq(paths, 1, Min(10, Len(paths)))

\* analyzeNetwork after buildNetworkGraph: detectClusters, identifyInfluencers,
\* tracePropagationPaths (every storage write succeeds)
AnalyzeGraph ==
    /\ UNCHANGED nonGraphVars
    /\ grPc = "built"
    /\ clusters' = detectClusters(nodes, edges)
    /\ influencers' = identifyInfluencers(nodes, edges, spreadData)
    /\ propagationPaths' = tracePropagationPaths(nodes, edges, spreadData)
    /\ grPc' = "analyzed"
    /\ UNCHANGED <<spreadData, nodes, edges>>

MaxRepeats == 2

Repeated(x, n) == [i \in 1..n |-> x]

OptionalInteraction == {<<>>} \cup {<<x>> : x \in Interactions}

\* datasets in which an account may contribute several interactions: u1 and u2
\* retweet up to MaxRepeats times each, and there is at most one quote and at
\* most one reply, of any account
NetworkDatasets ==
    { [authorId |-> "u0", createdAt |-> t0,
       retweets |-> Repeated([authorId |-> "u1", createdAt |-> t[1]], n[1])
                    \o Repeated([authorId |-> "u2", createdAt |-> t[2]], n[2]),
       quotes |-> q, replies |-> r]
      : t0 \in OriginalTimes, t \in {10, 20} \X {10, 20},
        n \in (0..MaxRepeats) \X (0..MaxRepeats),
        q \in OptionalInteraction, r \in OptionalInteraction }

NetworkStart ==
    /\ grPc = "collecting"
    /\ spreadData \in NetworkDatasets
    /\ nodes = <<>>
    /\ edges = <<>>
    /\ clusters = <<>>
    /\ influencers = <<>>
    /\ propagationPaths = <<>>

InitNetwork ==
    NetworkStart /\ EngineStart /\ IdleStore /\ IdleRerun /\ IdleAnomaly /\ IdleMerge
    /\ IdleClassify
    /\ IdleCollector
    /\ IdleReadOnly
    /\ IdleIndex
    /\ IdleRate

NextNetwork == BuildNetworkGraph \/ AnalyzeGraph

SpecNetwork == InitNetwork /\ [][NextNetwork]_vars

\* C11 as stated: every cluster returned by analyzeNetwork has coherence in
\* [0,1], also when one account contributes several interactions
C11_Stated ==
    grPc = "analyzed" =>
        \A i \in 1..Len(clusters) :
            /\ ~clusters[i].coherence.nan
            /\ clusters[i].coherence.v >= 0
            /\ clusters[i].coherence.v <= 1000

\* C12 as stated: every cluster returned by analyzeNetwork has a suspicion
\* score that is a number in [0,1], also when the timestamps of its members
\* are all equal
C12_Stated ==
    grPc = "analyzed" =>
        \A i \in 1..Len(clusters) :
            /\ ~clusters[i].suspicionScore.nan
            /\ clusters[i].suspicionScore.v >= 0
            /\ clusters[i].suspicionScore.v <= 1000

\* C15: for a dataset with an original post and no repost, quote or reply,
\* analyzeNetwork returns one node, no edge, no cluster, one influencer (the
\* source, with score 50 and role originator) and no propagation path
C15_LoneSource ==
    (grPc = "analyzed" /\ InteractionCount = 0) =>
        /\ Len(nodes) = 1
        /\ nodes[1].accountId = spreadData.authorId
        /\ edges = <<>>
        /\ clusters = <<>>
        /\ Len(influencers) = 1
        /\ influencers[1].accountId = spreadData.authorId
        /\ influencers[1].influenceScore = 50000
        /\ influencers[1].role = "originator"
        /\ propagationPaths = <<>>

\* an analysed dataset without interactions
C15_Witness ==
    /\ grPc = "analyzed"
    /\ spreadData.retweets = <<>>
    /\ spreadData.quotes = <<>>
    /\ spreadData.replies = <<>>
    /\ Len(influencers) = 1

GraphNodeIds == {nodes[i].accountId : i \in 1..Len(nodes)}

\* an edge joins a and b, in either direction
Joined(a, b) ==
    \E i \in 1..Len(edges) :
        \/ edges[i].source = a /\ edges[i].target = b
        \/ edges[i].source = b /\ edges[i].target = a

\* the connected component of the nodes of S in the undirected graph
RECURSIVE ComponentOf(_)
ComponentOf(S) ==
    LET more == S \cup {b \in GraphNodeIds : \E a \in S : Joined(a, b)}
    IN  IF more = S THEN S ELSE ComponentOf(more)

MembersOf(cluster) == {cluster.nodes[k] : k \in 1..Len(cluster.nodes)}

\* C25: every cluster returned by analyzeNetwork is a whole connected component
\* of the undirected graph, has at least 3 members, no account belongs to two
\* clusters, and every component with at least 3 nodes is returned
C25_ClustersAreComponents ==
    grPc = "analyzed" =>
        /\ \A i \in 1..Len(clusters) :
              /\ Len(clusters[i].nodes) >= 3
              /\ Cardinality(MembersOf(clusters[i])) = Len(clusters[i].nodes)
              /\ \A a \in MembersOf(clusters[i]) :
                    MembersOf(clusters[i]) = ComponentOf({a})
        /\ \A i, j \in 1..Len(clusters) :
              i # j => MembersOf(clusters[i]) \cap MembersOf(clusters[j]) = {}
        /\ \A a \in GraphNodeIds :
              Cardinality(ComponentOf({a})) >= 3 =>
                  \E i \in 1..Len(clusters) : a \in MembersOf(clusters[i])

\* an analysed graph of exactly 3 nodes, returned as one cluster
C25_Witness ==
    /\ grPc = "analyzed"
    /\ Len(nodes) = 3
    /\ Len(clusters) = 1
    /\ Len(clusters[1].nodes) = 3

\* C28: for every dataset analyzeNetwork returns an empty list of propagation
\* paths: the only node without an outgoing edge is the original author, whose
\* path to itself has length 1, and no node is a leaf when the author interacts
\* with its own post
C28_NoPropagationPaths ==
    grPc = "analyzed" => propagationPaths = <<>>

\* an analysed graph with spreaders whose only leaf is the original author
C28_Witness ==
    /\ grPc = "analyzed"
    /\ Len(edges) >= 2
    /\ Len(findLeafNodes(nodes, edges)) = 1
    /\ findLeafNodes(nodes, edges)[1].accountId = spreadData.authorId
    /\ propagationPaths = <<>>

\* C18 as stated: the influence score of every InfluencerNode returned by
\* analyzeNetwork lies in 0..100 (here in thousandths), whatever the number of
\* spreaders and the time of the original post
C18_Stated ==
    grPc = "analyzed" =>
        \A i \in 1..Len(influencers) :
            /\ influencers[i].influenceScore >= 0
            /\ influencers[i].influenceScore <= 100000

-----------------------------------------------------------------------------
(* BotDetector.classify over pairs of probabilities (in millionths) *)

\* BotDetector.thresholds
thresholds == [bot |-> 800000, cyborg |-> 600000, uncertain |-> 400000]

\* probabilities in [0,1]: the tenths, and each threshold with its two
\* neighbours
Probabilities ==
    {k * 100000 : k \in 0..10}
    \cup {t + d : t \in {thresholds.bot, thresholds.cyborg, thresholds.uncertain},
                  d \in {-1, 0, 1}}

ClassifyStart ==
    /\ clPc = "input"
    /\ probabilities \in Probabilities \X Probabilities
    /\ classifications = <<>>

\* const classification = this.classify(probability), for both probabilities
Classify ==
    /\ UNCHANGED nonClassifyVars
    /\ clPc = "input"
    /\ classifications' = <<classify(probabilities[1]), classify(probabilities[2])>>
    /\ clPc' = "classified"
    /\ UNCHANGED probabilities

InitClassify ==
    ClassifyStart /\ EngineStart /\ IdleStore /\ IdleRerun /\ IdleAnomaly /\ IdleMerge
    /\ IdleGraph
    /\ IdleCollector
    /\ IdleReadOnly
    /\ IdleIndex
    /\ IdleRate

NextClassify == Classify

SpecClassify == InitClassify /\ [][NextClassify]_vars

\* human < uncertain < cyborg < bot
ClassRank(c) ==
    CASE c = "human" -> 0
      [] c = "uncertain" -> 1
      [] c = "cyborg" -> 2
      [] c = "bot" -> 3

\* the class the thresholds 0.4, 0.6, 0.8 give, a probability equal to a
\* threshold getting the higher class
ClassOf(p) ==
    IF p >= thresholds.bot THEN "bot"
    ELSE IF p >= thresholds.cyborg THEN "cyborg"
    ELSE IF p >= thresholds.uncertain THEN "uncertain"
    ELSE "human"

\* C13: for probabilities p <= q in [0,1], classify(p) <= classify(q) in the
\* order human < uncertain < cyborg < bot, and the class changes exactly at
\* 0.4, 0.6 and 0.8, a probability equal to a threshold getting the higher
\* class
C13_ClassifyMonotonic ==
    clPc = "classified" =>
        /\ probabilities[1] <= probabilities[2] =>
              ClassRank(classifications[1]) <= ClassRank(classifications[2])
        /\ \A i \in 1..2 : classifications[i] = ClassOf(probabilities[i])

\* a pair classified with the lower probability on one threshold and the
\* higher one just below the next
C13_Witness ==
    /\ clPc = "classified"
    /\ probabilities = <<400000, 599999>>
    /\ classifications = <<"uncertain", "uncertain">>

-----------------------------------------------------------------------------
(* Properties of the analysis engine *)

FinalStatus == {"completed", "failed"}

\* runFullAnalysis has thrown and the task is about to enter the catch of
\* startAnalysisAsync; the error came out of one of the four analyses
AnalysisThrew(id) ==
    pc[id] = "outerCatch" /\ hist[id].thrown.src \in Analyzers

\* C1 as stated: whenever one of the four analyses throws, the row ends
\* 'failed' with the error's message and the same error is re-thrown
C1_Stated ==
    \A id \in AnalysisIds :
        AnalysisThrew(id) =>
            /\ rec[id].status = "failed"
            /\ rec[id].error = hist[id].thrown.msg
            /\ outcome[id] = [kind |-> "threw", err |-> hist[id].thrown]

\* C1 amended: when an analysis throws, the run never writes 'completed'; if
\* the 'failed' update succeeds the row is 'failed', carries the message when
\* it is non-empty and the same error is re-thrown; if that update is rejected
\* the row stays 'running' and the update's own error is thrown instead
C1_FailedOnAnalysisError ==
    \A id \in AnalysisIds :
        AnalysisThrew(id) =>
            /\ rec[id].status # "completed"
            /\ "completed" \notin {hist[id].steps[i] : i \in 1..Len(hist[id].steps)}
            /\ hist[id].catchWrite \in {"ok", "failed"}
            /\ hist[id].catchWrite = "ok" =>
                  /\ rec[id].status = "failed"
                  /\ rec[id].error = IF hist[id].thrown.msg = "" THEN "null"
                                     ELSE hist[id].thrown.msg
                  /\ outcome[id] = [kind |-> "threw", err |-> hist[id].thrown]
            /\ hist[id].catchWrite = "failed" =>
                  /\ rec[id].status = "running"
                  /\ outcome[id] = [kind |-> "threw",
                                    err |-> Error("engine", StorageMessage)]

C1_Witness ==
    \E id \in AnalysisIds :
        /\ AnalysisThrew(id)
        /\ hist[id].thrown.msg = "bad input"
        /\ hist[id].catchWrite = "ok"
        /\ rec[id].status = "failed"

StatusMoves(allowed) ==
    \A id \in AnalysisIds :
        rec'[id].status # rec[id].status =>
            <<rec[id].status, rec'[id].status>> \in allowed

\* C2 as stated: the status moves only none->pending (the insert),
\* pending->running, running->completed and running->failed
C2_Stated ==
    [][StatusMoves({<<"none", "pending">>, <<"pending", "running">>,
                    <<"running", "completed">>, <<"running", "failed">>})]_vars

\* C2 amended: as stated, except that 'failed' is also written over 'pending'
\* (when the 'running' update was rejected); a 'completed' or 'failed' status
\* never changes to another value
C2_StatusLifecycle ==
    [][StatusMoves({<<"none", "pending">>, <<"pending", "running">>,
                    <<"running", "completed">>, <<"running", "failed">>,
                    <<"pending", "failed">>})]_vars

\* 'failed' written over 'pending': no 'running' write preceded it
C2_Witness ==
    \E id \in AnalysisIds :
        /\ rec[id].status = "failed"
        /\ hist[id].steps = <<"failed">>
        /\ pc[id] = "done"

RunEnded(id) == pc[id] \in {"outerCatch", "done"} /\ outcome[id].kind # "none"

\* C3 as stated: when no analysis computation throws and the engine's own
\* writes succeed, storage writes failing inside the analyzers do not fail
\* the run: it returns its result and the row is 'completed'
C3_Stated ==
    \A id \in AnalysisIds :
        (RunEnded(id) /\ hist[id].faults \subseteq {"graphWrite", "analyzerWrite"})
            => (outcome[id].kind = "returned" /\ rec[id].status = "completed")

CompletedSteps ==
    <<"running", "network", "bots", "coordination", "anomalies",
      "summary", "stored", "completed">>

\* C5: a run that ends 'completed' went through running, the four analyses,
\* summary, stored, completed in this order; the summary is computed from all
\* four results and 'completed' is written only after the summary is stored
C5_OrderOfSteps ==
    \A id \in AnalysisIds :
        /\ rec[id].status = "completed" =>
              /\ hist[id].steps = CompletedSteps
              /\ rec[id].summary = "full"
        /\ summary[id].made =>
              /\ finished[id] = Analyzers
              /\ summary[id] = GenerateSummaryOf(Analyzers)
        /\ rec[id].summary = "full" => summary[id].made
        /\ finished[id] # {} => hist[id].steps[1] = "running"

C5_Witness ==
    \E id \in AnalysisIds :
        rec[id].status = "completed" /\ outcome[id].kind = "returned"

\* C6 as stated, in the form a finite run refutes: a task that has ended
\* leaves its row 'completed' or 'failed'
C6_Stated ==
    \A id \in AnalysisIds : pc[id] = "done" => rec[id].status \in FinalStatus

\* C6 amended: every created analysis eventually ends its task, and its row
\* is then 'completed' or 'failed' unless both 'failed' updates (the catch of
\* runFullAnalysis and the catch of startAnalysisAsync) were rejected
C6_EventuallySettled ==
    \A id \in AnalysisIds :
        (rec[id].status = "pending") ~>
            (/\ pc[id] = "done"
             /\ \/ rec[id].status \in FinalStatus
                \/ /\ hist[id].catchWrite = "failed"
                   /\ hist[id].outerWrite = "failed")

\* the catch of startAnalysisAsync records the failure that the catch of
\* runFullAnalysis could not
C6_Witness ==
    \E id \in AnalysisIds :
        /\ pc[id] = "done"
        /\ rec[id].status = "failed"
        /\ hist[id].catchWrite = "failed"
        /\ hist[id].outerWrite = "ok"

-----------------------------------------------------------------------------
(* TwitterCollectorImpl.collectTweetSpread with RateLimiter 'twitter-api' *)

MaxQuota == 3

MaxPages == 2

MaxCalls == 3

MaxClock == 3

\* RateLimiter.windowMs, in ticks of tcNow
windowMs == 2

\* RateLimiter.initializeLimits, with total MaxQuota
initializeLimits == [remaining |-> MaxQuota, resetAt |-> 0 + windowMs]

\* RateLimiter.resetLimit
resetLimit(l, t) == [remaining |-> MaxQuota, resetAt |-> t + windowMs]

\* RateLimiter.checkLimit: the limit afterwards and the boolean it resolves to
checkLimit(l, t) ==
    IF l.resetAt < t
    THEN [limit |-> resetLimit(l, t), ok |-> TRUE]
    ELSE [limit |-> l, ok |-> l.remaining > 0]

\* RateLimiter.consume: the limit afterwards and whether it threw
consume(l, t, points) ==
    LET cur == IF l.resetAt < t THEN resetLimit(l, t) ELSE l
    IN  IF cur.remaining < points
        THEN [limit |-> cur, threw |-> TRUE]
        ELSE [limit |-> [remaining |-> cur.remaining - points,
                         resetAt |-> cur.resetAt],
              threw |-> FALSE]

\* the state after new RateLimiter() and new TwitterCollectorImpl(...)
CollectorStart ==
    /\ tcPc = "idle"
    /\ limit = initializeLimits
    /\ tcNow = 0
    /\ apiRequests = 0
    /\ checkResult = "none"
    /\ quotaBefore = MaxQuota
    /\ pagesLeft = 0
    /\ calls = 0

\* the wall clock advances
CollectorTick ==
    /\ UNCHANGED nonCollectorVars
    /\ tcNow < MaxClock
    /\ tcNow' = tcNow + 1
    /\ UNCHANGED <<tcPc, limit, apiRequests, checkResult, quotaBefore,
                   pagesLeft, calls>>

\* collectTweetSpread up to `if (cached) return cached`
CallCollectTweetSpread ==
    /\ UNCHANGED nonCollectorVars
    /\ tcPc \in {"idle", "returned", "failed"}
    /\ calls < MaxCalls
    /\ calls' = calls + 1
    /\ apiRequests' = 0
    /\ checkResult' = "none"
    /\ quotaBefore' = limit.remaining
    /\ pagesLeft' = 0
    /\ \E cached \in BOOLEAN :
          tcPc' = IF cached THEN "returned" ELSE "checkLimit"
    /\ UNCHANGED <<limit, tcNow>>

\* await this.rateLimiter.checkLimit('twitter-api'): the value is dropped
CheckLimit ==
    /\ UNCHANGED nonCollectorVars
    /\ tcPc = "checkLimit"
    /\ LET r == checkLimit(limit, tcNow)
       IN  /\ limit' = r.limit
           /\ checkResult' = IF r.ok THEN "true" ELSE "false"
    /\ tcPc' = "getTweet"
    /\ UNCHANGED <<tcNow, apiRequests, quotaBefore, pagesLeft, calls>>

\* const originalTweet = await this.getTweetWithAuthor(tweetId): singleTweet
GetTweetWithAuthor ==
    /\ UNCHANGED nonCollectorVars
    /\ tcPc = "getTweet"
    /\ apiRequests' = apiRequests + 1
    /\ tcPc' = "collect"
    /\ UNCHANGED <<limit, tcNow, checkResult, quotaBefore, pagesLeft, calls>>

\* Promise.all([collectRetweets, collectQuotes, collectReplies]) up to the
\* first page of collectHistoricalData: tweetRetweetedBy, search, singleTweet
\* and, when the tweet has a conversationId, the search of the conversation
CollectInteractions ==
    /\ UNCHANGED nonCollectorVars
    /\ tcPc = "collect"
    /\ \E hasConversation \in BOOLEAN :
          IF hasConversation
          THEN /\ apiRequests' = apiRequests + 4
               /\ \E n \in 0..MaxPages : pagesLeft' = n
               /\ tcPc' = "pages"
          ELSE /\ apiRequests' = apiRequests + 3
               /\ pagesLeft' = 0
               /\ tcPc' = "returned"
    /\ UNCHANGED <<limit, tcNow, checkResult, quotaBefore, calls>>

\* one round of `for await (const page of paginator)` in
\* collectHistoricalData: consume('twitter-api', 1), then the next page is
\* requested if there is one
ConsumePage ==
    /\ UNCHANGED nonCollectorVars
    /\ tcPc = "pages"
    /\ pagesLeft > 0
    /\ LET r == consume(limit, tcNow, 1)
       IN  /\ limit' = r.limit
           /\ IF r.threw
              THEN /\ tcPc' = "failed"
                   /\ UNCHANGED <<apiRequests, pagesLeft>>
              ELSE /\ pagesLeft' = pagesLeft - 1
                   /\ apiRequests' = IF pagesLeft > 1 THEN apiRequests + 1
                                     ELSE apiRequests
                   /\ tcPc' = "pages"
    /\ UNCHANGED <<tcNow, checkResult, quotaBefore, calls>>

\* the paginator is exhausted; buildTimeline, buildNetworkGraph, cache.set
ReturnSpreadData ==
    /\ UNCHANGED nonCollectorVars
    /\ tcPc = "pages"
    /\ pagesLeft = 0
    /\ tcPc' = "returned"
    /\ UNCHANGED <<limit, tcNow, apiRequests, checkResult, quotaBefore,
                   pagesLeft, calls>>

InitCollector ==
    CollectorStart /\ EngineStart /\ IdleStore /\ IdleRerun /\ IdleAnomaly
    /\ IdleMerge /\ IdleGraph /\ IdleClassify
    /\ IdleReadOnly
    /\ IdleIndex
    /\ IdleRate

NextCollector ==
    \/ CollectorTick
    \/ CallCollectTweetSpread
    \/ CheckLimit
    \/ GetTweetWithAuthor
    \/ CollectInteractions
    \/ ConsumePage
    \/ ReturnSpreadData

SpecCollector == InitCollector /\ [][NextCollector]_vars

\* C17 as stated: when checkLimit('twitter-api') resolved to false,
\* collectTweetSpread issues no Twitter API request, and a call that issued
\* requests leaves less remaining quota than it found (unless the window was
\* reset meanwhile)
C17_Stated ==
    /\ checkResult = "false" => apiRequests = 0
    /\ (tcPc \in {"returned", "failed"} /\ apiRequests > 0) =>
          \/ limit.remaining < quotaBefore
          \/ limit.resetAt > windowMs

-----------------------------------------------------------------------------
(* runFullAnalysis and the arrays of spreadData.  An array is a name of the *)
(* heap: a function that gets an array gets its name, `[...a]`, map and     *)
(* filter make an array under a new name, Array.prototype.sort changes the  *)
(* array it is called on.                                                   *)

MaxListLen == 2

\* the arrays of SpreadData
DatasetArrays == {"retweets", "quotes", "replies", "timeline", "nodes"}

DatasetOf(h) == [k \in DatasetArrays |-> h[k]]

\* retweets of u1 and u2 (cascade depth 1), and below a quote of depth 2, a
\* reply of depth 1 and the events of a timeline
ListedItems == [authorId : {"u1", "u2"}, createdAt : {10, 20}, cascadeDepth : {1}]

ListsUpTo(S, n) == UNION {[1..k -> S] : k \in 0..n}

\* a SpreadData with its lists in any order, and nothing created yet
ReadOnlyHeaps ==
    { [retweets |-> rt, quotes |-> qt, replies |-> rp, timeline |-> tl,
       nodes |-> nd, graphNodes |-> <<>>, graphEdges |-> <<>>,
       timestamps |-> <<>>, accounts |-> <<>>, activities |-> <<>>,
       sortedActivities |-> <<>>, events |-> <<>>, sortedTimeline |-> <<>>,
       accountEvents |-> <<>>]
      : rt \in ListsUpTo(ListedItems, MaxListLen),
        qt \in ListsUpTo({[authorId |-> "u1", createdAt |-> 20, cascadeDepth |-> 2]}, 1),
        rp \in ListsUpTo({[authorId |-> "u2", createdAt |-> 10, cascadeDepth |-> 1]}, 1),
        tl \in {<<>>,
                <<[authorId |-> "u1", createdAt |-> 10],
                  [authorId |-> "u2", createdAt |-> 20]>>,
                <<[authorId |-> "u2", createdAt |-> 20],
                  [authorId |-> "u1", createdAt |-> 10]>>},
        nd \in {<<>>, <<"u0", "u1">>, <<"u1", "u0">>} }

\* the time an element is ordered by: createdAt of an item of the dataset,
\* timestamp of a SpreadEvent or TimelineEvent
TimeOf(x) == IF "timestamp" \in DOMAIN x THEN x.timestamp ELSE x.createdAt

RECURSIVE insertByTime(_, _)
insertByTime(sorted, x) ==
    IF sorted = <<>> THEN <<x>>
    ELSE IF TimeOf(Head(sorted)) <= TimeOf(x)
         THEN <<Head(sorted)>> \o insertByTime(Tail(sorted), x)
         ELSE <<x>> \o sorted

\* sort((a, b) => a.timestamp.getTime() - b.timestamp.getTime()): stable
RECURSIVE sortByTime(_, _)
sortByTime(rest, sorted) ==
    IF rest = <<>> THEN sorted
    ELSE sortByTime(Tail(rest), insertByTime(sorted, Head(rest)))

\* the SpreadData that buildNetworkGraph reads: original tweet of u0 at time 0
SpreadDataOf(h) ==
    [authorId |-> "u0", createdAt |-> 0, retweets |-> h.retweets,
     quotes |-> h.quotes, replies |-> h.replies]

\* calculateActivityPattern: const timestamps = clusterNodes.map(...).filter(...)
\* for the first cluster that detectClusters finds
clusterTimestamps(graphNodes, graphEdges) ==
    LET found == detectClusters(graphNodes, graphEdges)
    IN  IF found = <<>> THEN <<>>
        ELSE [i \in 1..Len(found[1].nodes) |->
                 TimestampOf(graphNodes, found[1].nodes[i])]

\* analyzeNetwork: buildNetworkGraph makes nodes and edges; the timestamps of
\* a cluster are a new array, which calculateCoordinationScore sorts in place
analyzeNetworkArrays(h) ==
    LET g == buildNetworkGraph(SpreadDataOf(h))
    IN  [h EXCEPT !.graphNodes = g.nodes,
                  !.graphEdges = g.edges,
                  !.timestamps = sortTimes(clusterTimestamps(g.nodes, g.edges), <<>>)]

\* extractAccounts: Array.from(accountMap.values()) over the spread of the
\* three lists; the mock items carry no author, the ids stand for them
RECURSIVE distinctAuthors(_, _)
distinctAuthors(items, seen) ==
    IF items = <<>> THEN seen
    ELSE distinctAuthors(Tail(items),
                         IF Includes(seen, Head(items).authorId) THEN seen
                         ELSE Append(seen, Head(items).authorId))

extractAccounts(h) ==
    [h EXCEPT !.accounts =
        distinctAuthors(h.retweets \o h.quotes \o h.replies, <<"u0">>)]

ActivityOf(item, type) ==
    [sourceAccountId |-> item.authorId, type |-> type, timestamp |-> item.createdAt,
     cascadeDepth |-> item.cascadeDepth]

\* extractActivities with spreadData.retweets.sort(...) before the forEach
extractActivitiesSortsSource(h) ==
    LET sorted == sortByTime(h.retweets, <<>>)
    IN  [h EXCEPT !.retweets = sorted,
                  !.activities =
                      [i \in 1..Len(sorted) |-> ActivityOf(sorted[i], "retweet")]
                      \o [i \in 1..Len(h.quotes) |-> ActivityOf(h.quotes[i], "quote")]]

\* extractActivities: a new array filled from retweets and quotes
extractActivities(h) ==
    [h EXCEPT !.activities =
        [i \in 1..Len(h.retweets) |-> ActivityOf(h.retweets[i], "retweet")]
        \o [i \in 1..Len(h.quotes) |-> ActivityOf(h.quotes[i], "quote")]]

\* groupByTimeWindow: const sortedActivities = [...activities].sort(...)
groupByTimeWindowArrays(h) ==
    [h EXCEPT !.sortedActivities = sortByTime(h.activities, <<>>)]

\* the events of retweets and quotes are made with cascadeDepth: 1
EventOf(item, type) ==
    [accountId |-> item.authorId, type |-> type, timestamp |-> item.createdAt,
     cascadeDepth |-> 1]

\* extractTimeline: a new array of the original tweet, retweets and quotes
extractTimeline(h) ==
    [h EXCEPT !.events =
        <<[accountId |-> "u0", type |-> "original", timestamp |-> 0,
           cascadeDepth |-> 0]>>
        \o [i \in 1..Len(h.retweets) |-> EventOf(h.retweets[i], "retweet")]
        \o [i \in 1..Len(h.quotes) |-> EventOf(h.quotes[i], "quote")]]

\* the events of the first account with at least 5 events, as
\* detectTemporalPatterns groups them
firstAccountEvents(events) ==
    LET Busy(a) == Cardinality({i \in 1..Len(events) : events[i].accountId = a}) >= 5
        busy == {i \in 1..Len(events) : Busy(events[i].accountId)}
    IN  IF busy = {} THEN <<>>
        ELSE LET first == events[CHOOSE i \in busy : \A j \in busy : i <= j].accountId
                 Mine(e) == e.accountId = first
             IN  SelectSeq(events, Mine)

\* detectAnomalies: nothing below minEventsForAnalysis; else
\* sortedTimeline = [...timeline].sort(...), and calculateIntervals sorts in
\* place the array of an account's events that detectTemporalPatterns made
detectAnomaliesArrays(h) ==
    IF ~EnoughEvents(h.events) THEN h
    ELSE LET sortedTimeline == sortByTime(h.events, <<>>)
         IN  [h EXCEPT !.sortedTimeline = sortedTimeline,
                       !.accountEvents =
                           sortByTime(firstAccountEvents(sortedTimeline), <<>>)]

\* runFullAnalysis is called with a dataset
ReadOnlyStart ==
    /\ roPc = "network"
    /\ heap \in ReadOnlyHeaps
    /\ snapshot = DatasetOf(heap)

\* const network = await this.networkAnalyzer.analyzeNetwork(spreadData, ...)
RunAnalyzeNetwork ==
    /\ UNCHANGED nonReadOnlyVars
    /\ roPc = "network"
    /\ heap' = analyzeNetworkArrays(heap)
    /\ roPc' = "bots"
    /\ UNCHANGED snapshot

\* const accounts = this.extractAccounts(spreadData); detectBots(accounts)
RunDetectBots ==
    /\ UNCHANGED nonReadOnlyVars
    /\ roPc = "bots"
    /\ heap' = extractAccounts(heap)
    /\ roPc' = "coordination"
    /\ UNCHANGED snapshot

\* const activities = this.extractActivities(spreadData);
\* detectCoordination(activities, analysisId)
RunDetectCoordination ==
    /\ UNCHANGED nonReadOnlyVars
    /\ roPc = "coordination"
    /\ heap' = groupByTimeWindowArrays(extractActivities(heap))
    /\ roPc' = "anomalies"
    /\ UNCHANGED snapshot

\* const timeline = this.extractTimeline(spreadData);
\* detectAnomalies(timeline, analysisId); summary, store, return
RunDetectAnomalies ==
    /\ UNCHANGED nonReadOnlyVars
    /\ roPc = "anomalies"
    /\ heap' = detectAnomaliesArrays(extractTimeline(heap))
    /\ roPc' = "done"
    /\ UNCHANGED snapshot

\* an await of the step that runs next rejects: the catch block sets the
\* status and rethrows
RunFails ==
    /\ UNCHANGED nonReadOnlyVars
    /\ roPc \in {"network", "bots", "coordination", "anomalies"}
    /\ roPc' = "failed"
    /\ UNCHANGED <<heap, snapshot>>

InitReadOnly ==
    ReadOnlyStart /\ EngineStart /\ IdleStore /\ IdleRerun /\ IdleAnomaly
    /\ IdleMerge /\ IdleGraph /\ IdleClassify /\ IdleCollector
    /\ IdleIndex
    /\ IdleRate

NextReadOnly ==
    \/ RunAnalyzeNetwork
    \/ RunDetectBots
    \/ RunDetectCoordination
    \/ RunDetectAnomalies
    \/ RunFails

SpecReadOnly == InitReadOnly /\ [][NextReadOnly]_vars

\* C19: after runFullAnalysis, returned or failed, the repost, quote and reply
\* lists, the timeline and the node list of the dataset hold the same elements
\* in the same order as before the call
C19_DatasetReadOnly ==
    roPc \in {"done", "failed"} => DatasetOf(heap) = snapshot

\* a finished run over reposts that are not in time order, which the
\* coordination step sorted in its copy
C19_Witness ==
    /\ roPc = "done"
    /\ Len(heap.retweets) = 2
    /\ heap.retweets[1].createdAt > heap.retweets[2].createdAt
    /\ heap.sortedActivities # heap.activities

\* the reposts, quotes and replies of the dataset, each with its type
DatasetInteractions(h) ==
    [i \in 1..Len(h.retweets) |-> <<"retweet", h.retweets[i]>>]
    \o [i \in 1..Len(h.quotes) |-> <<"quote", h.quotes[i]>>]
    \o [i \in 1..Len(h.replies) |-> <<"reply", h.replies[i]>>]

\* C27 as stated: the activities handed to detectCoordination and the timeline
\* handed to detectAnomalies hold one event for every repost, quote and reply of
\* the dataset (the timeline also the original post), each event with the
\* account, time and cascade depth of its dataset item
C27_Stated ==
    roPc = "done" =>
        LET items == DatasetInteractions(heap)
            IsActivityOf(a, x) ==
                /\ a.type = x[1]
                /\ a.sourceAccountId = x[2].authorId
                /\ a.timestamp = x[2].createdAt
                /\ a.cascadeDepth = x[2].cascadeDepth
            IsEventOf(e, x) ==
                /\ e.type = x[1]
                /\ e.accountId = x[2].authorId
                /\ e.timestamp = x[2].createdAt
                /\ e.cascadeDepth = x[2].cascadeDepth
            Same(x) == Cardinality({j \in 1..Len(items) : items[j] = x})
        IN  /\ Len(heap.activities) = Len(items)
            /\ Len(heap.events) = Len(items) + 1
            /\ \E i \in 1..Len(heap.events) :
                   /\ heap.events[i].type = "original"
                   /\ heap.events[i].cascadeDepth = 0
            /\ \A k \in 1..Len(items) :
                   /\ Cardinality({i \in 1..Len(heap.activities) :
                                      IsActivityOf(heap.activities[i], items[k])})
                        = Same(items[k])
                   /\ Cardinality({i \in 1..Len(heap.events) :
                                      IsEventOf(heap.events[i], items[k])})
                        = Same(items[k])

-----------------------------------------------------------------------------
(* CoordinationDetector.detectCoordination over reposts of one tweet.  Times *)
(* are in seconds, confidences in thousandths.                               *)

MaxReposts == 25

\* CoordinationDetector.timeWindowThreshold: 3 minutes
timeWindowThreshold == 180

\* CoordinationDetector.contentSimilarityThreshold, in thousandths
contentSimilarityThreshold == 800

\* the time of the i-th of n reposts: all at one instant, one per second, one
\* every 5 seconds, or all at once but the last, which comes 2 minutes later
RepostTime(spacing, i, n) ==
    CASE spacing = "instant" -> 0
      [] spacing = "second" -> i - 1
      [] spacing = "five" -> 5 * (i - 1)
      [] spacing = "late" -> IF i = n THEN 120 ELSE 0

\* AnalysisEngine.extractActivities over n reposts of n distinct accounts
\* within 2 minutes; content is the set of words of rt.text, {} without text
RepostActivities ==
    { [i \in 1..n |-> [id |-> i, type |-> "retweet", sourceAccountId |-> i,
                       targetTweetId |-> "t",
                       timestamp |-> RepostTime(spacing, i, n),
                       content |-> words]]
      : n \in 1..MaxReposts,
        spacing \in {"instant", "second", "five", "late"},
        words \in {{}, {"rt", "news"}} }

\* group.push(activity) for the first group within the threshold, else
\* groups.set(time, [activity])
RECURSIVE joinTimeGroup(_, _, _)
joinTimeGroup(groups, k, activity) ==
    IF k > Len(groups)
    THEN Append(groups, [time |-> activity.timestamp, members |-> <<activity>>])
    ELSE LET d == activity.timestamp - groups[k].time
         IN  IF (IF d < 0 THEN -d ELSE d) <= timeWindowThreshold
             THEN [groups EXCEPT ![k].members = Append(@, activity)]
             ELSE joinTimeGroup(groups, k + 1, activity)

RECURSIVE groupSorted(_, _)
groupSorted(sortedActivities, groups) ==
    IF sortedActivities = <<>> THEN groups
    ELSE groupSorted(Tail(sortedActivities),
                     joinTimeGroup(groups, 1, Head(sortedActivities)))

\* CoordinationDetector.groupByTimeWindow
groupByTimeWindow(list) == groupSorted(sortByTime(list, <<>>), <<>>)

\* [...new Set(group.map(a => a.sourceAccountId))]
uniqueAccounts(group) == {group[i].sourceAccountId : i \in 1..Len(group)}

TimestampsOf(list) == {list[i].timestamp : i \in 1..Len(list)}

MinOf(S) == CHOOSE x \in S : \A y \in S : x <= y
MaxOf(S) == CHOOSE x \in S : \A y \in S : x >= y

\* CoordinationDetector.calculateTimeWindow
calculateTimeWindow(list) ==
    [start |-> MinOf(TimestampsOf(list)), end |-> MaxOf(TimestampsOf(list))]

\* CoordinationDetector.calculateTimeSpread: 1 hour = 1.0
calculateTimeSpread(list) ==
    Min(1000, ((MaxOf(TimestampsOf(list)) - MinOf(TimestampsOf(list))) * 1000)
              \div 3600)

\* CoordinationDetector.calculateAccountDiversity
calculateAccountDiversity(list) ==
    (Cardinality(uniqueAccounts(list)) * 1000) \div Len(list)

RECURSIVE SumOf(_)
SumOf(q) == IF q = <<>> THEN 0 ELSE Head(q) + SumOf(Tail(q))

\* CoordinationDetector.calculateBurstiness: Math.min(1.0, cv) with
\* cv = sqrt(variance) / mean = sqrt(k * sum(x^2) - sum(x)^2) / sum(x) over the
\* k intervals; 0 / 0 is NaN, and Math.min(1.0, NaN) is NaN
calculateBurstinessOf(list) ==
    LET timestamps == sortTimes([i \in 1..Len(list) |-> list[i].timestamp], <<>>)
        intervals == intervalsOf(timestamps)
        k == Len(intervals)
        total == SumOf(intervals)
        spread == k * SumSquares(intervals) - total * total
    IN  IF Len(timestamps) < 2 THEN Num(0)
        ELSE IF total = 0 THEN NaN
        ELSE Num(Min(1000, (100 * Isqrt(100 * spread, 10 * k * total)) \div total))

\* CoordinationDetector.calculateTemporalConfidence
calculateTemporalConfidence(list) ==
    LET burstiness == calculateBurstinessOf(list)
    IN  IF burstiness.nan THEN NaN
        ELSE Num(((1000 - calculateTimeSpread(list)) * 400
                  + (1000 - calculateAccountDiversity(list)) * 300
                  + burstiness.v * 300) \div 1000)

\* CoordinationDetector.generateTemporalEvidence
generateTemporalEvidence(list) ==
    LET groups == groupByTimeWindow(list)
        Pair(g) == Len(g.members) >= 2
        shown == SelectSeq(groups, Pair)
    IN  [i \in 1..Len(shown) |->
            [type |-> "temporal_synchronization",
             accounts |-> uniqueAccounts(shown[i].members),
             timestamp |-> shown[i].time]]

\* CoordinationDetector.createTemporalPattern
createTemporalPattern(group, accounts) ==
    [accounts |-> accounts, type |-> "temporal",
     confidence |-> calculateTemporalConfidence(group),
     evidence |-> generateTemporalEvidence(group),
     timeWindow |-> calculateTimeWindow(group)]

\* CoordinationDetector.detectTemporalCoordination
detectTemporalCoordination(list) ==
    LET groups == groupByTimeWindow(list)
        Large(g) == /\ Len(g.members) >= minGroupSize
                    /\ Cardinality(uniqueAccounts(g.members)) >= minGroupSize
        kept == SelectSeq(groups, Large)
    IN  [i \in 1..Len(kept) |->
            createTemporalPattern(kept[i].members, uniqueAccounts(kept[i].members))]

\* CoordinationDetector.calculateContentSimilarity: Jaccard similarity of the
\* words, 0 when one of the two has no content
calculateContentSimilarity(a, b) ==
    IF a.content = {} \/ b.content = {} THEN 0
    ELSE (Cardinality(a.content \cap b.content) * 1000)
         \div Cardinality(a.content \cup b.content)

\* the inner loop of groupBySimilarContent
RECURSIVE similarTo(_, _, _, _, _)
similarTo(list, i, j, used, group) ==
    IF j > Len(list) THEN [used |-> used, group |-> group]
    ELSE IF list[j].id \notin used
            /\ calculateContentSimilarity(list[i], list[j]) >= contentSimilarityThreshold
         THEN similarTo(list, i, j + 1, used \cup {list[j].id}, Append(group, list[j]))
         ELSE similarTo(list, i, j + 1, used, group)

RECURSIVE contentGroupsFrom(_, _, _, _)
contentGroupsFrom(list, i, used, groups) ==
    IF i > Len(list) THEN groups
    ELSE IF list[i].id \in used
         THEN contentGroupsFrom(list, i + 1, used, groups)
         ELSE LET r == similarTo(list, i, i + 1, used \cup {list[i].id}, <<list[i]>>)
              IN  contentGroupsFrom(list, i + 1, r.used,
                                    IF Len(r.group) >= minGroupSize
                                    THEN Append(groups, r.group) ELSE groups)

\* CoordinationDetector.groupBySimilarContent
groupBySimilarContent(list) == contentGroupsFrom(list, 1, {}, <<>>)

\* the inner loop of calculateAverageContentSimilarity: list[i] against the
\* activities after it
RECURSIVE similarityRow(_, _, _)
similarityRow(list, i, j) ==
    IF j > Len(list) THEN 0
    ELSE calculateContentSimilarity(list[i], list[j]) + similarityRow(list, i, j + 1)

\* the outer loop of calculateAverageContentSimilarity
RECURSIVE similaritySum(_, _)
similaritySum(list, i) ==
    IF i >= Len(list) THEN 0
    ELSE similarityRow(list, i, i + 1) + similaritySum(list, i + 1)

\* CoordinationDetector.calculateAverageContentSimilarity
calculateAverageContentSimilarity(list) ==
    IF Len(list) < 2 THEN 0
    ELSE similaritySum(list, 1) \div ((Len(list) * (Len(list) - 1)) \div 2)

\* CoordinationDetector.calculateContentConfidence
calculateContentConfidence(list) ==
    (calculateAverageContentSimilarity(list) * 700
     + (1000 - calculateAccountDiversity(list)) * 300) \div 1000

\* CoordinationDetector.generateContentEvidence
generateContentEvidence(list) ==
    LET groups == groupBySimilarContent(list)
    IN  [i \in 1..Len(groups) |->
            [type |-> "content_similarity", accounts |-> uniqueAccounts(groups[i]),
             timestamp |-> groups[i][1].timestamp]]

\* CoordinationDetector.createContentPattern
createContentPattern(group, accounts) ==
    [accounts |-> accounts, type |-> "content",
     confidence |-> Num(calculateContentConfidence(group)),
     evidence |-> generateContentEvidence(group),
     timeWindow |-> calculateTimeWindow(group)]

\* CoordinationDetector.detectContentCoordination
detectContentCoordination(list) ==
    LET groups == groupBySimilarContent(list)
        Large(g) == Cardinality(uniqueAccounts(g)) >= minGroupSize
        kept == SelectSeq(groups, Large)
    IN  [i \in 1..Len(kept) |-> createContentPattern(kept[i], uniqueAccounts(kept[i]))]

\* adjacencyMap of findNetworkClusters without the comparison of targetTweetId
relatedAccountsAnyTarget(list, account) ==
    {list[j].sourceAccountId : j \in 1..Len(list)} \ {account}

\* adjacencyMap of findNetworkClusters: the other accounts that acted on the
\* tweet an account acted on
relatedAccounts(list, account) ==
    { list[j].sourceAccountId : j \in
        { j \in 1..Len(list) :
            /\ list[j].sourceAccountId # account
            /\ \E i \in 1..Len(list) :
                  /\ list[i].sourceAccountId = account
                  /\ list[i].targetTweetId = list[j].targetTweetId } }

\* the keys of adjacencyMap in insertion order
RECURSIVE accountsInOrder(_, _)
accountsInOrder(list, seen) ==
    IF list = <<>> THEN seen
    ELSE accountsInOrder(Tail(list),
                         IF Includes(seen, Head(list).sourceAccountId) THEN seen
                         ELSE Append(seen, Head(list).sourceAccountId))

\* the connections of an account in the order they were added to its Set
connectionsInOrder(list, account) ==
    LET Related(a) == a \in relatedAccounts(list, account)
    IN  SelectSeq(accountsInOrder(list, <<>>), Related)

\* CoordinationDetector.expandCluster.  An account that already waits in the
\* queue is not pushed a second time: the loop skips the second copy when it
\* takes it, since the account is visited by then
RECURSIVE expandAccountCluster(_, _, _, _)
expandAccountCluster(queue, list, visited, cluster) ==
    IF queue = <<>> THEN [visited |-> visited, cluster |-> cluster]
    ELSE LET current == Head(queue)
         IN  IF current \in visited
             THEN expandAccountCluster(Tail(queue), list, visited, cluster)
             ELSE LET Unvisited(a) == /\ a \notin visited \cup {current}
                                      /\ ~Includes(Tail(queue), a)
                  IN  expandAccountCluster(
                          Tail(queue) \o SelectSeq(connectionsInOrder(list, current),
                                                   Unvisited),
                          list, visited \cup {current}, Append(cluster, current))

RECURSIVE clustersFrom(_, _, _, _)
clustersFrom(list, accounts, visited, found) ==
    IF accounts = <<>> THEN found
    ELSE LET account == Head(accounts)
         IN  IF account \notin visited
                /\ Cardinality(relatedAccounts(list, account)) >= minGroupSize - 1
             THEN LET r == expandAccountCluster(<<account>>, list, visited, <<>>)
                  IN  clustersFrom(list, Tail(accounts), r.visited,
                                   IF Len(r.cluster) >= minGroupSize
                                   THEN Append(found, r.cluster) ELSE found)
             ELSE clustersFrom(list, Tail(accounts), visited, found)

\* CoordinationDetector.findNetworkClusters: the accounts of each cluster
findNetworkClusters(list) ==
    clustersFrom(list, accountsInOrder(list, <<>>), {}, <<>>)

\* CoordinationDetector.calculateActivityDensity
calculateActivityDensity(list, accounts) ==
    Min(1000, (Len(list) * 100) \div Len(accounts))

\* CoordinationDetector.calculateAccountConsistency
calculateAccountConsistency(list) ==
    1000 - (Cardinality({list[i].type : i \in 1..Len(list)}) * 1000) \div Len(list)

\* CoordinationDetector.calculateBehaviorConsistency: the mean over the
\* accounts with 2 or more activities, 0 without such an account
calculateBehaviorConsistency(list) ==
    LET Of(a) == LET Mine(x) == x.sourceAccountId = a IN SelectSeq(list, Mine)
        busy == {a \in uniqueAccounts(list) : Len(Of(a)) >= 2}
        RECURSIVE Total(_)
        Total(S) == IF S = {} THEN 0
                    ELSE LET a == CHOOSE x \in S : TRUE
                         IN  calculateAccountConsistency(Of(a)) + Total(S \ {a})
    IN  IF busy = {} THEN 0 ELSE Total(busy) \div Cardinality(busy)

\* CoordinationDetector.calculateNetworkConfidence
calculateNetworkConfidence(list, accounts) ==
    (calculateActivityDensity(list, accounts) * 600
     + calculateBehaviorConsistency(list) * 400) \div 1000

\* CoordinationDetector.createNetworkPattern with generateNetworkEvidence
createNetworkPattern(list, accounts) ==
    [accounts |-> {accounts[i] : i \in 1..Len(accounts)}, type |-> "network",
     confidence |-> Num(calculateNetworkConfidence(list, accounts)),
     evidence |-> <<[type |-> "network_cluster",
                     accounts |-> {accounts[i] : i \in 1..Len(accounts)},
                     timestamp |-> list[1].timestamp]>>,
     timeWindow |-> calculateTimeWindow(list)]

\* CoordinationDetector.detectNetworkCoordination
detectNetworkCoordination(list) ==
    LET found == findNetworkClusters(list)
    IN  [i \in 1..Len(found) |->
            LET InCluster(a) == Includes(found[i], a.sourceAccountId)
            IN  createNetworkPattern(SelectSeq(list, InCluster), found[i])]

MaxRounds == 2

\* n accounts that each repost the tweet once per round, the rounds 5 minutes
\* apart; in a round the accounts act one per second
RoundActivities ==
    { [i \in 1..(n * rounds) |->
          [id |-> i, type |-> "retweet", sourceAccountId |-> ((i - 1) % n) + 1,
           targetTweetId |-> "t",
           timestamp |-> 300 * ((i - 1) \div n) + ((i - 1) % n),
           content |-> {}]]
      : n \in 3..4, rounds \in 2..MaxRounds }

\* detectCoordination is called with the activities
CoordinationStart ==
    /\ mgPc = "collected"
    /\ activities \in RepostActivities \cup RoundActivities
    /\ patterns = <<>>
    /\ mergedPatterns = <<>>
    /\ remerged = <<>>

\* detectCoordination up to the merge: the patterns of the three detectors
DetectPatterns ==
    /\ UNCHANGED nonMergeVars
    /\ mgPc = "collected"
    /\ patterns' = detectTemporalCoordination(activities)
                   \o detectContentCoordination(activities)
                   \o detectNetworkCoordination(activities)
    /\ mgPc' = "detecting"
    /\ UNCHANGED <<activities, mergedPatterns, remerged>>

InitCoordination ==
    CoordinationStart /\ EngineStart /\ IdleStore /\ IdleRerun /\ IdleAnomaly
    /\ IdleGraph /\ IdleClassify /\ IdleCollector /\ IdleReadOnly
    /\ IdleIndex
    /\ IdleRate

NextCoordination == DetectPatterns \/ MergePatterns \/ MergeAgain

SpecCoordination == InitCoordination /\ [][NextCoordination]_vars

\* the timestamps of the evidence of a pattern
EvidenceTimes(p) == {p.evidence[k].timestamp : k \in 1..Len(p.evidence)}

\* C21 as stated: every pattern returned by detectCoordination has a
\* timeWindow whose start is the minimum and whose end is the maximum timestamp
\* over its evidence list, the evidence taken over from merged patterns included
C21_Stated ==
    mgPc \in {"merged", "remerged"} =>
        \A i \in 1..Len(mergedPatterns) :
            LET m == mergedPatterns[i]
            IN  m.evidence # <<>> =>
                    /\ m.timeWindow.start = MinOf(EvidenceTimes(m))
                    /\ m.timeWindow.end = MaxOf(EvidenceTimes(m))

\* C16 as stated: for 25 reposts of 25 distinct accounts within 2 minutes,
\* detectCoordination returns a pattern of type 'temporal' that covers at
\* least 20 accounts and has a confidence above 0.5
C16_Stated ==
    (mgPc \in {"merged", "remerged"} /\ Len(activities) = 25) =>
        \E i \in 1..Len(mergedPatterns) :
            /\ mergedPatterns[i].type = "temporal"
            /\ Cardinality(mergedPatterns[i].accounts) >= 20
            /\ ~mergedPatterns[i].confidence.nan
            /\ mergedPatterns[i].confidence.v > 500

-----------------------------------------------------------------------------
(* AnomalyDetector.detectAnomalies over timelines with hubs: depth-0 events  *)
(* followed by depth-1 events.  The spike, pattern and behavior detectors    *)
(* return anomalies of other types, whose keys in prioritizeAnomalies differ *)
(* from those of the network detector; they are left out.                    *)

MaxChildren == 21

\* `count > 20` of detectNetworkAnomalies
starThreshold == 20

\* `maxDepth > 10` of detectNetworkAnomalies
depthThreshold == 10

\* a depth-0 event of an account at time t, followed by k depth-1 events of
\* account "c" after `gap` seconds
Hub(account, t, k, gap) ==
    <<[type |-> "original", accountId |-> account, timestamp |-> t,
       cascadeDepth |-> 0]>>
    \o [i \in 1..k |-> [type |-> "retweet", accountId |-> "c",
                        timestamp |-> t + gap, cascadeDepth |-> 1]]

\* a hub of account "a" at time 0; possibly a second hub of "a" or "b" 1000 s
\* later; possibly one event deep in a cascade
HubTimelines ==
    { Hub("a", 0, k[1], gap)
      \o (IF second = "none" THEN <<>> ELSE Hub(second, 1000, k[2], gap))
      \o deep
      : k \in {0, MaxChildren - 1, MaxChildren} \X {0, MaxChildren - 1, MaxChildren},
        gap \in {1, 59, 60},
        second \in {"none", "a", "b"},
        deep \in {<<>>} \cup
                 {<<[type |-> "retweet", accountId |-> x, timestamp |-> 2000,
                     cascadeDepth |-> depthThreshold + 1]>> : x \in {"a", "c"}} }

\* timeline.filter(e => e.cascadeDepth === 1 && Math.abs(e.timestamp.getTime()
\* - event.timestamp.getTime()) < 60000).length
childrenNear(list, event) ==
    LET d(e) == IF e.timestamp >= event.timestamp
                THEN e.timestamp - event.timestamp
                ELSE event.timestamp - e.timestamp
    IN  Cardinality({i \in 1..Len(list) :
                        list[i].cascadeDepth = 1 /\ d(list[i]) < 60})

\* triggerCounts.set(accountId, count): a Map keeps the position of the first
\* insertion of a key and its last value
setCount(counts, accountId, count) ==
    IF \E i \in 1..Len(counts) : counts[i].accountId = accountId
    THEN [i \in 1..Len(counts) |->
             IF counts[i].accountId = accountId
             THEN [accountId |-> accountId, count |-> count]
             ELSE counts[i]]
    ELSE Append(counts, [accountId |-> accountId, count |-> count])

\* the first loop of the star detection: for (const event of timeline)
RECURSIVE triggerCounts(_, _, _)
triggerCounts(list, i, counts) ==
    IF i > Len(list) THEN counts
    ELSE triggerCounts(list, i + 1,
             IF list[i].cascadeDepth = 0
             THEN setCount(counts, list[i].accountId, childrenNear(list, list[i]))
             ELSE counts)

\* the deep-cascade part of detectNetworkAnomalies, stamped at time t
depthAnomalies(list, t) ==
    LET depths == {list[i].cascadeDepth : i \in 1..Len(list)}
        maxDepth == CHOOSE x \in depths : \A y \in depths : x >= y
        Deep(e) == e.cascadeDepth >= maxDepth - 2
        deepEvents == SelectSeq(list, Deep)
    IN  IF maxDepth > depthThreshold
        THEN <<[type |-> "network", severity |-> "high", timestamp |-> t,
                affectedAccounts |->
                    [i \in 1..Len(deepEvents) |-> deepEvents[i].accountId],
                confidence |-> 80]>>
        ELSE <<>>

\* the star part of detectNetworkAnomalies, stamped at time t
starAnomalies(list, t) ==
    LET counts == triggerCounts(list, 1, <<>>)
        Many(c) == c.count > starThreshold
        stars == SelectSeq(counts, Many)
    IN  [i \in 1..Len(stars) |->
            [type |-> "network", severity |-> "high", timestamp |-> t,
             affectedAccounts |-> <<stars[i].accountId>>, confidence |-> 90]]

\* AnomalyDetector.detectNetworkAnomalies; new Date() gives t1, then t2
detectNetworkAnomalies(list, t1, t2) ==
    depthAnomalies(list, t1) \o starAnomalies(list, t2)

\* detectAnomalies is called with a timeline
HubStart ==
    /\ anPc = "detecting"
    /\ timeline \in HubTimelines
    /\ anWrites = 0
    /\ anomalies = <<>>
    /\ prioritized = <<>>

\* detectAnomalies from the sort of the copy to the return
DetectAnomaliesOfTimeline ==
    /\ UNCHANGED nonAnomalyVars
    /\ anPc = "detecting"
    /\ EnoughEvents(timeline)
    /\ \E t1, t2 \in AnomalyTimes :
          /\ t1 <= t2
          /\ anomalies' = detectNetworkAnomalies(sortByTime(timeline, <<>>), t1, t2)
    /\ prioritized' = prioritizeAnomalies(anomalies')
    /\ anWrites' = Len(prioritized')
    /\ anPc' = "returned"
    /\ UNCHANGED timeline

InitHub ==
    HubStart /\ EngineStart /\ IdleStore /\ IdleRerun /\ IdleMerge /\ IdleGraph
    /\ IdleClassify /\ IdleCollector /\ IdleReadOnly
    /\ IdleIndex
    /\ IdleRate

NextHub == DetectAnomaliesOfTimeline \/ ReturnEmpty

SpecHub == InitHub /\ [][NextHub]_vars

\* C23 as stated: for a timeline of at least 10 events, if a depth-0 event has
\* more than 20 depth-1 events within 60 seconds of it, the returned list holds
\* a high-severity 'network' star anomaly (confidence 0.9) whose affected
\* account is the account of that event, whatever its other depth-0 events
C23_Stated ==
    (anPc = "returned" /\ Len(timeline) >= 10) =>
        \A i \in 1..Len(timeline) :
            (timeline[i].cascadeDepth = 0
             /\ childrenNear(timeline, timeline[i]) > 20) =>
                \E j \in 1..Len(prioritized) :
                    /\ prioritized[j].type = "network"
                    /\ prioritized[j].severity = "high"
                    /\ prioritized[j].confidence = 90
                    /\ prioritized[j].affectedAccounts = <<timeline[i].accountId>>

-----------------------------------------------------------------------------
(* CoordinationDetector.detectNetworkCoordination over accounts that act on *)
(* several tweets                                                           *)

MaxAccounts == 6

\* the tweets an account acts on
TargetChoices == {<<"t">>, <<"s">>, <<"s", "t">>}

\* the activities of the accounts in the given order, one for each tweet an
\* account acts on
RECURSIVE activitiesOf(_, _, _)
activitiesOf(order, targets, done) ==
    IF order = <<>> THEN done
    ELSE LET a == Head(order)
         IN  activitiesOf(Tail(order), targets,
                 done \o [k \in 1..Len(targets[a]) |->
                             [id |-> Len(done) + k, type |-> "retweet",
                              sourceAccountId |-> a,
                              targetTweetId |-> targets[a][k],
                              timestamp |-> Len(done) + k, content |-> {}]])

TargetActivities ==
    { activitiesOf(order, targets, <<>>)
      : order \in {[i \in 1..MaxAccounts |-> i],
                   [i \in 1..MaxAccounts |-> MaxAccounts + 1 - i]},
        targets \in [1..MaxAccounts -> TargetChoices] }

\* detectNetworkCoordination is called with the activities
LinkStart ==
    /\ mgPc = "collected"
    /\ activities \in TargetActivities
    /\ patterns = <<>>
    /\ mergedPatterns = <<>>
    /\ remerged = <<>>

\* const networkPatterns = await this.detectNetworkCoordination(activities)
DetectNetworkCoordination ==
    /\ UNCHANGED nonMergeVars
    /\ mgPc = "collected"
    /\ patterns' = detectNetworkCoordination(activities)
    /\ mgPc' = "detecting"
    /\ UNCHANGED <<activities, mergedPatterns, remerged>>

InitLink ==
    LinkStart /\ EngineStart /\ IdleStore /\ IdleRerun /\ IdleAnomaly
    /\ IdleGraph /\ IdleClassify /\ IdleCollector /\ IdleReadOnly
    /\ IdleIndex
    /\ IdleRate

NextLink == DetectNetworkCoordination

SpecLink == InitLink /\ [][NextLink]_vars

ActingAccounts == {activities[i].sourceAccountId : i \in 1..Len(activities)}

\* two accounts acted on the same target post
ActedOnSame(a, b) ==
    /\ a # b
    /\ \E i, j \in 1..Len(activities) :
          /\ activities[i].sourceAccountId = a
          /\ activities[j].sourceAccountId = b
          /\ activities[i].targetTweetId = activities[j].targetTweetId

\* the accounts connected with those of S by links
RECURSIVE ConnectedWith(_)
ConnectedWith(S) ==
    LET more == S \cup {b \in ActingAccounts : \E a \in S : ActedOnSame(a, b)}
    IN  IF more = S THEN S ELSE ConnectedWith(more)

NetworkPatternSets ==
    {patterns[i].accounts : i \in {k \in 1..Len(patterns) : patterns[k].type = "network"}}

\* C24: the network patterns are the connected components with at least 3
\* accounts of the graph that links two accounts iff they acted on the same
\* target post: one pattern for each such component, with the whole component
\* as its accounts, none with fewer than 3 accounts, no two sharing an account
C24_NetworkComponents ==
    mgPc = "detecting" =>
        /\ \A i \in 1..Len(patterns) :
              patterns[i].type = "network" =>
                  /\ Cardinality(patterns[i].accounts) >= 3
                  /\ \A a \in patterns[i].accounts :
                        patterns[i].accounts = ConnectedWith({a})
        /\ \A a \in ActingAccounts :
              Cardinality(ConnectedWith({a})) >= 3 =>
                  Cardinality({i \in 1..Len(patterns) :
                                  /\ patterns[i].type = "network"
                                  /\ patterns[i].accounts = ConnectedWith({a})}) = 1
        /\ \A i, j \in 1..Len(patterns) :
              (i # j /\ patterns[i].type = "network" /\ patterns[j].type = "network")
                  => patterns[i].accounts \cap patterns[j].accounts = {}

\* two components of 3 accounts each, found as two patterns
C24_Witness ==
    /\ mgPc = "detecting"
    /\ Len(patterns) = 2
    /\ Cardinality(NetworkPatternSets) = 2
    /\ \A a \in ActingAccounts : Cardinality(ConnectedWith({a})) = 3

-----------------------------------------------------------------------------
(* DataStorageService: saveSearchData / saveAnalysisData calls that run     *)
(* concurrently, each suspended at its file-system awaits, and the          *)
(* index.json of each directory.                                            *)

MaxSavers == 2

Savers == 1..MaxSavers

\* updateIndex: 'searches' | 'analyses', each with its own index.json
IndexKinds == {"searches", "analyses"}

\* updateIndex: if (index.length > 1000)
indexLimit == 1000

\* the index entry of the save of caller s (its id and filename are its own);
\* the entries an index file holds at the start are 1, 2, ...
EntryOf(s) == indexLimit + s

\* an index.json written by earlier saves: missing, empty, one below the limit
\* or at the limit
StoredIndexFiles ==
    {[exists |-> FALSE, entries |-> <<>>]}
    \cup {[exists |-> TRUE, entries |-> [i \in 1..n |-> i]]
            : n \in {0, indexLimit - 1, indexLimit}}

\* index.push(entry); if (index.length > 1000) index = index.slice(-1000)
pushAndKeepLast(index, entry) ==
    LET pushed == Append(index, entry)
    IN  IF Len(pushed) > indexLimit
        THEN SubSeq(pushed, Len(pushed) - indexLimit + 1, Len(pushed))
        ELSE pushed

IndexStart ==
    /\ ixPc = [s \in Savers |-> "idle"]
    /\ ixKind = [s \in Savers |-> "none"]
    /\ ixLocal = [s \in Savers |-> <<>>]
    /\ \E f \in StoredIndexFiles : indexFiles = [k \in IndexKinds |-> f]
    /\ ixReadFailed = {}

\* saveSearchData(keyword, data, source) or saveAnalysisData(analysisId, data)
\* is called: id, timestamp, filename and storedData are made
CallSave(s) ==
    /\ UNCHANGED nonIndexVars
    /\ ixPc[s] = "idle"
    /\ \E k \in IndexKinds : ixKind' = [ixKind EXCEPT ![s] = k]
    /\ ixPc' = [ixPc EXCEPT ![s] = "dataFile"]
    /\ UNCHANGED <<ixLocal, indexFiles, ixReadFailed>>

\* await fs.promises.writeFile(filepath, JSON.stringify(storedData)); a
\* rejection is logged and rethrown
WriteDataFile(s) ==
    /\ UNCHANGED nonIndexVars
    /\ ixPc[s] = "dataFile"
    /\ \E ok \in BOOLEAN :
         ixPc' = [ixPc EXCEPT ![s] = IF ok THEN "readIndex" ELSE "failed"]
    /\ UNCHANGED <<ixKind, ixLocal, indexFiles, ixReadFailed>>

\* updateIndex: let index = []; if (fs.existsSync(indexFile)) try { index =
\* JSON.parse(await fs.promises.readFile(indexFile)) } catch { warn }
ReadIndex(s) ==
    /\ UNCHANGED nonIndexVars
    /\ ixPc[s] = "readIndex"
    /\ LET file == indexFiles[ixKind[s]]
       IN  IF ~file.exists
           THEN /\ ixLocal' = [ixLocal EXCEPT ![s] = <<>>]
                /\ ixReadFailed' = ixReadFailed
           ELSE \E ok \in BOOLEAN :
                  IF ok
                  THEN /\ ixLocal' = [ixLocal EXCEPT ![s] = file.entries]
                       /\ ixReadFailed' = ixReadFailed
                  ELSE /\ ixLocal' = [ixLocal EXCEPT ![s] = <<>>]
                       /\ ixReadFailed' = ixReadFailed \cup {s}
    /\ ixPc' = [ixPc EXCEPT ![s] = "writeIndex"]
    /\ UNCHANGED <<ixKind, indexFiles>>

\* updateIndex: index.push(entry); slice; await fs.promises.writeFile(indexFile,
\* JSON.stringify(index)); then the save returns.  A rejection is rethrown.
WriteIndex(s) ==
    /\ UNCHANGED nonIndexVars
    /\ ixPc[s] = "writeIndex"
    /\ \E ok \in BOOLEAN :
         IF ok
         THEN /\ indexFiles' = [indexFiles EXCEPT ![ixKind[s]] =
                                   [exists |-> TRUE,
                                    entries |-> pushAndKeepLast(ixLocal[s], EntryOf(s))]]
              /\ ixPc' = [ixPc EXCEPT ![s] = "done"]
         ELSE /\ indexFiles' = indexFiles
              /\ ixPc' = [ixPc EXCEPT ![s] = "failed"]
    /\ UNCHANGED <<ixKind, ixLocal, ixReadFailed>>

InitIndex ==
    IndexStart /\ EngineStart /\ IdleStore /\ IdleRerun /\ IdleAnomaly
    /\ IdleMerge /\ IdleGraph /\ IdleClassify /\ IdleCollector /\ IdleReadOnly
    /\ IdleRate

NextIndex ==
    \E s \in Savers :
        \/ CallSave(s)
        \/ WriteDataFile(s)
        \/ ReadIndex(s)
        \/ WriteIndex(s)

SpecIndex == InitIndex /\ [][NextIndex]_vars

\* the saves of kind k that completed
CompletedSaves(k) == {s \in Savers : ixPc[s] = "done" /\ ixKind[s] = k}

\* C29 as stated: once every save that was called has completed or failed, and
\* no read of an index file was rejected, the index file of each kind holds
\* exactly one entry for every completed save of that kind, and never more
\* than 1000 entries
C29_Stated ==
    \A k \in IndexKinds :
        /\ Len(indexFiles[k].entries) <= indexLimit
        /\ (/\ \A s \in Savers : ixPc[s] \in {"idle", "done", "failed"}
            /\ ixReadFailed = {})
           => \A s \in CompletedSaves(k) :
                 Cardinality({i \in 1..Len(indexFiles[k].entries) :
                                 indexFiles[k].entries[i] = EntryOf(s)}) = 1

-----------------------------------------------------------------------------
(* RateLimitService as searchTwitter uses it for endpoint 'twitter-search'. *)
(* Date.now() is kept in units of 5 minutes.                                *)

MaxTime == 4

\* config.maxRequests
maxRequests == 10

\* config.windowMs: 15 minutes
configWindowMs == 3

\* records.get(endpoint) === undefined
NoRecord == [exists |-> FALSE, count |-> 0, firstRequest |-> 0]

\* RateLimitService.canMakeRequest: the answer and the record it leaves
canMakeRequest(record, t) ==
    IF ~record.exists THEN [can |-> TRUE, record |-> record]
    ELSE IF record.firstRequest < t - configWindowMs
         THEN [can |-> TRUE, record |-> [record EXCEPT !.count = 0, !.firstRequest = t]]
         ELSE [can |-> record.count < maxRequests, record |-> record]

\* RateLimitService.recordRequest
recordRequest(record, t) ==
    LET r == IF record.exists THEN record
             ELSE [exists |-> TRUE, count |-> 0, firstRequest |-> t]
    IN  IF r.firstRequest < t - configWindowMs
        THEN [r EXCEPT !.count = 1, !.firstRequest = t]
        ELSE [r EXCEPT !.count = @ + 1]

RateStart ==
    /\ rlRecord = NoRecord
    /\ rlNow = 0
    /\ rlRecorded = [t \in 0..MaxTime |-> 0]

\* Date.now() advances
RateTick ==
    /\ UNCHANGED nonRateVars
    /\ rlNow < MaxTime
    /\ rlNow' = rlNow + 1
    /\ UNCHANGED <<rlRecord, rlRecorded>>

\* searchTwitter with useReal and a keyword that is not cached: if
\* canMakeRequest(endpoint) then recordRequest(endpoint) and the API call,
\* else the mock data
SearchTwitter ==
    /\ UNCHANGED nonRateVars
    /\ LET checked == canMakeRequest(rlRecord, rlNow)
       IN  IF checked.can
           THEN /\ rlRecord' = recordRequest(checked.record, rlNow)
                /\ rlRecorded' = [rlRecorded EXCEPT ![rlNow] = @ + 1]
           ELSE /\ rlRecord' = checked.record
                /\ rlRecorded' = rlRecorded
    /\ UNCHANGED rlNow

InitRate ==
    RateStart /\ EngineStart /\ IdleStore /\ IdleRerun /\ IdleAnomaly
    /\ IdleMerge /\ IdleGraph /\ IdleClassify /\ IdleCollector /\ IdleReadOnly
    /\ IdleIndex

NextRate == RateTick \/ SearchTwitter

SpecRate == InitRate /\ [][NextRate]_vars

RECURSIVE RecordedFrom(_, _)
\* the requests recorded at the times from..to
RecordedFrom(from, to) ==
    IF from > to THEN 0 ELSE rlRecorded[from] + RecordedFrom(from + 1, to)

\* C30 as stated: the count stored for the endpoint never exceeds 10, and the
\* requests recorded at times less than 15 minutes apart are at most 10
C30_Stated ==
    /\ rlRecord.count <= maxRequests
    /\ \A t \in 0..MaxTime :
          RecordedFrom(Max(0, t - configWindowMs + 1), t) <= maxRequests

====
